---- MODULE Spec2Model ----
(***************************************************************************)
(* The configurable fetch pipeline of communication.bs.js:                 *)
(*   - the Fetcher returned by createFetcherBuilder(options).build()       *)
(*     (src/src/fetcherFactory.ts): hooks, request deduplication, timeout, *)
(*     retry;                                                              *)
(*   - the API client on top of it (src/src/apiFetchFactory.ts): apiFetch  *)
(*     and apiStreamFetch with their error normalisation.                  *)
(* JavaScript runs every synchronous stretch of a function to completion,  *)
(* so one action is one stretch between two suspension points (await).     *)
(* The platform fetch, the timers, the caller's AbortController and the    *)
(* user's hooks are the environment: their outcomes are chosen with \E.    *)
(***************************************************************************)
EXTENDS Integers, Sequences, FiniteSets, TLC

\* ------------------------------------------------------------------ bounds
\* Number of Fetcher calls made through the one built Fetcher.
MaxCalls == 2
\* Largest retry budget (options.retries) a configuration may hold.
MaxRetries == 2

Calls == 1..MaxCalls

\* ----------------------------------------------------------- configuration
\* options.retryOn left undefined by setRetries(retries, retryDelay).
NoList == {-1}
\* HTTP statuses the platform fetch may answer with: an ok one and a non-ok one.
Statuses == {200, 500}
RetryOnChoices == {NoList} \cup SUBSET Statuses

\* ---- headers
\* A header object: a function from the keys it holds to their values. Keys
\* are JavaScript property names, so they differ when their case differs.
NoHeaders == [ k \in {} |-> "" ]
\* { ...a, ...b }: the keys of both, b's value where both hold the key.
Spread(a, b) ==
    [ k \in DOMAIN a \cup DOMAIN b |-> IF k \in DOMAIN b THEN b[k] ELSE a[k] ]
\* delete h[key]
Without(h, key) == [ k \in DOMAIN h \ { key } |-> h[k] ]
\* Every header object over the given keys that holds the given value.
HeadersOver(keys, value) ==
    { [ k \in d |-> value ] : d \in SUBSET keys }

\* The default the Fetcher starts its headers from.
DefaultHeaders == [ k \in { "Content-Type" } |-> "application/json" ]
\* options.headers as addHeader may have filled them.
BuilderHeaders ==
    HeadersOver({ "Content-Type", "Authorization", "X-API-Key" }, "builder")
\* fetchOptions.headers as a caller may pass them.
CallHeaders ==
    HeadersOver({ "Content-Type", "content-type", "Authorization", "X-API-Key" },
                "call")

\* options.auth: absent, or what setAuth stored.
Auth(type, token, username, password) ==
    [ type |-> type, token |-> token, username |-> username, password |-> password ]
NoAuth == Auth("none", "", "", "")
AuthChoices ==
    { NoAuth,
      Auth("bearer", "jwt", "", ""),
      Auth("bearer", "", "", ""),
      Auth("basic", "", "user", "pass"),
      Auth("basic", "", "user", "") }

\* FetcherBuilderOptions as far as the pipeline's control flow reads them,
\* without builder headers and without auth.
Configs ==
    [ headers        : { NoHeaders },
      auth           : { NoAuth },
      dedupeRequests : BOOLEAN,
      retries        : 0..MaxRetries,
      retryOn        : RetryOnChoices,
      timeout        : BOOLEAN,
      beforeRequest  : BOOLEAN,
      afterResponse  : BOOLEAN,
      onError        : BOOLEAN ]

\* The configurations under which concurrent calls are explored.
SharedConfigs ==
    { o \in Configs :
        /\ o.dedupeRequests
        /\ o.retries <= 1
        /\ o.retryOn = { 500 }
        /\ ~o.timeout }

\* The configurations under which the request sent to fetch is explored:
\* every builder header object and every auth, nothing else configured.
RequestConfigs ==
    [ headers        : BuilderHeaders,
      auth           : AuthChoices,
      dedupeRequests : { FALSE },
      retries        : { 0 },
      retryOn        : { NoList },
      timeout        : { FALSE },
      beforeRequest  : { FALSE },
      afterResponse  : { FALSE },
      onError        : { FALSE } ]

\* ---- the builder
MaxBuilders == 3
\* A URL: origin ("" for a relative one), path, and the query as the sequence
\* of its << key, value >> pairs.
Url(origin, path, query) == [ origin |-> origin, path |-> path, query |-> query ]
NoUrl == Url("", "", <<>>)
\* options.baseURL: not set, an absolute one, a relative one.
NoBaseURL == Url("", "", <<>>)
BaseURLs == { Url("https://api.example.com", "", <<>>), Url("", "/api", <<>>) }
\* The url argument of a call: a path, with or without a query of its own.
CallUrls ==
    { Url("", "/data", <<>>),
      Url("", "/data", << << "existing", "value" >> >>),
      Url("", "/data", << << "version", "0" >>, << "existing", "value" >> >>) }
\* A query parameter value: a string, a number or a boolean, and String(value).
ParamValue(type, text) == [ type |-> type, text |-> text ]
\* options.queryParams when no setQueryParams was called, and the objects
\* setQueryParams may be given: the sequence of their << key, value >> entries.
NoQueryParams == [ defined |-> FALSE, entries |-> <<>> ]
QueryParamChoices ==
    { << << "version", ParamValue("string", "1.0") >> >>,
      << << "version", ParamValue("number", "2") >>,
         << "format", ParamValue("boolean", "true") >> >>,
      <<>> }

\* FetcherBuilderOptions in full: what createFetcherBuilder() starts from.
DefaultOptions ==
    [ headers |-> NoHeaders, baseURL |-> NoBaseURL, timeout |-> "undefined",
      retries |-> "undefined", retryDelay |-> "undefined",
      retryOn |-> "undefined", auth |-> NoAuth, beforeRequest |-> "undefined",
      afterResponse |-> "undefined", onError |-> "undefined",
      queryParams |-> NoQueryParams, credentials |-> "undefined",
      mode |-> "undefined", cache |-> "undefined", debug |-> FALSE,
      dedupeRequests |-> FALSE ]

\* A call of a builder method with its arguments.
Method(name, arg) == [ name |-> name, arg |-> arg ]
Methods ==
    { Method("addHeader", << "X-API-Key", "builder" >>),
      Method("setRequestTimeout", "5000"),
      Method("setRetries", "3"),
      Method("setAuth", Auth("bearer", "jwt", "", "")),
      Method("setBeforeRequest", "hook"),
      Method("setAfterResponse", "hook"),
      Method("setOnError", "hook"),
      Method("setCredentials", "include"),
      Method("setMode", "cors"),
      Method("setCache", "no-store"),
      Method("enableDebug", ""),
      Method("enableDeduplication", "") }
      \cup { Method("setBaseURL", b) : b \in BaseURLs }
      \cup { Method("setQueryParams", q) : q \in QueryParamChoices }

\* The builders made so far (each one the options object it closes over), the
\* builder whose options the Fetcher closes over (0: none built), and the
\* call made through the Fetcher: its url argument and the URL passed to fetch.
NoSent == [ url |-> NoUrl, fullURL |-> NoUrl ]
NewChain == [ options |-> << DefaultOptions >>, fetcher |-> 0, sent |-> NoSent ]

\* ------------------------------------------------------------------ values
\* A thrown JavaScript value or an ApiError, as the normalisation reads it.
JsErr(type, name, cause, message) ==
    [ type |-> type, name |-> name, cause |-> cause, message |-> message,
      errorId |-> "", status |-> 0, debugMessage |-> "" ]

\* type tells what the value is: "error" an instance of Error, "object" any
\* other object, "string" a string (held in message), "other" any other
\* primitive (its string form held in message), "ApiError" an ApiError.
NoErr == JsErr("none", "", "", "")
\* What the platform fetch rejects with once its signal is aborted.
AbortError == JsErr("error", "AbortError", "", "The operation was aborted")
\* What the platform fetch rejects with on a network-level failure.
NetworkError == JsErr("error", "TypeError", "", "Failed to fetch")
\* What a hook throws, and what response.json() rejects with.
HookError == JsErr("error", "Error", "", "hook failed")
JsonError == JsErr("error", "SyntaxError", "", "Unexpected token")

RequestAbortedStatus == 499
FetchFailedStatus == 500
SchemaFailedStatus == 500

ApiError(errorId, status, debugMessage) ==
    [ type |-> "ApiError", name |-> "Error", cause |-> "",
      message |-> "API Error", errorId |-> errorId, status |-> status,
      debugMessage |-> debugMessage ]

\* The promise an async function returns when it returns e: an object that is
\* no Error and no ApiError and has no name and no cause of its own. Its other
\* fields tell what it resolves to.
PromiseOf(e) == [ e EXCEPT !.type = "Promise" ]

\* The values a hook may throw: ApiErrors, Error instances, plain objects,
\* strings and null, with and without the marks of an abort.
ThrownValues ==
    { ApiError("original_error", 400, "Original message"),
      AbortError,
      HookError,
      JsErr("error", "Error", "aborted", "stopped"),
      JsErr("object", "AbortError", "", ""),
      JsErr("object", "", "aborted", ""),
      JsErr("object", "", "", "a message property"),
      JsErr("string", "", "", "aborted"),
      JsErr("string", "", "", "AbortError"),
      JsErr("string", "", "", "Something went wrong"),
      JsErr("other", "", "", "null") }

\* A Response object. id and via are its identity: the call and the attempt
\* whose fetch produced it, and whether it is that response ("fetch") or one
\* an afterResponse hook put in its place ("afterResponse").
Resp(id, status, via) == [ id |-> id, status |-> status, via |-> via ]
NoResp == Resp(<< 0, 0 >>, 0, "none")

IsOk(status) == status >= 200 /\ status <= 299

\* The settlement of a promise of a Response.
Resolved(r) == [ kind |-> "resolved", resp |-> r, err |-> NoErr ]
Rejected(e) == [ kind |-> "rejected", resp |-> NoResp, err |-> e ]
NoOutcome == [ kind |-> "none", resp |-> NoResp, err |-> NoErr ]

\* The body of a response as the client reads it: whether response.body is
\* there, whether it parses as JSON, whether the parsed value is an object
\* whose errorId and debugMessage, if any, are strings, these two ("" when
\* the object has no such field), and its text.
Body(present, parses, conforms, errorId, debugMessage, text) ==
    [ present |-> present, parses |-> parses, conforms |-> conforms,
      errorId |-> errorId, debugMessage |-> debugMessage, text |-> text,
      kind |-> "object", tag |-> "" ]
\* A body whose JSON value is of another kind than an object: an array, null,
\* a number or a string. It parses and is no error object.
OfKind(kind, text) ==
    [ Body(TRUE, TRUE, FALSE, "", "", text) EXCEPT !.kind = kind ]
\* A body whose JSON object has a $type property with the given value.
Tagged(body, tag) == [ body EXCEPT !.tag = tag ]
NoResponseBody == Body(FALSE, FALSE, FALSE, "", "", "")
\* An error object with errorId and debugMessage, an object without errorId,
\* and text that is no JSON.
PlainBodies ==
    { Body(TRUE, TRUE, TRUE, "not_found", "x", "{errorId,debugMessage}"),
      Body(TRUE, TRUE, TRUE, "", "", "{someField}"),
      Body(TRUE, FALSE, FALSE, "", "", "<html>") }
\* The bodies a response may carry: those, an error object without
\* debugMessage, an object with debugMessage only, a JSON array, an object
\* whose debugMessage is a number, and no body at all.
ErrorBodies ==
    PlainBodies \cup
    { Body(TRUE, TRUE, TRUE, "bad_request", "", "{errorId}"),
      Body(TRUE, TRUE, TRUE, "", "why", "{debugMessage}"),
      OfKind("array", "[1]"),
      Body(TRUE, TRUE, FALSE, "", "", "{debugMessage:5}"),
      Body(FALSE, FALSE, FALSE, "", "", "") }

\* The bodies an ok response may carry as its payload: those, the JSON values
\* that are no object, and objects with a $type property.
Payloads ==
    ErrorBodies \cup
    { OfKind("null", "null"),
      OfKind("number", "404"),
      OfKind("string", "error"),
      Tagged(Body(TRUE, TRUE, TRUE, "", "", "{$type:SomethingElse}"), "SomethingElse"),
      Tagged(Body(TRUE, TRUE, TRUE, "test", "", "{$type:ApiError,errorId}"), "ApiError") }

\* parsed.error.message of a schema that rejected the data.
ValidatorMessage == "Invalid input"

\* How response.json() may behave for an ok response, and how options.schema
\* judges the data ("none": the options hold no schema).
Jsons == { "ok", "rejects" }
Schemas == { "none", "pass", "fail" }

\* ---- values as isApiError sees them
\* A JavaScript value: what typeof answers, whether it is null, and the
\* properties `in` finds on it with their values.
JsValue(typeof, isNull, props) ==
    [ typeof |-> typeof, null |-> isNull, props |-> props ]
NoProps == [ k \in {} |-> "" ]
JsUndefined == JsValue("undefined", FALSE, NoProps)
JsNull == JsValue("object", TRUE, NoProps)
\* [] and a ReadableStream: objects without any of the properties read here.
JsArray == JsValue("object", FALSE, NoProps)
\* new Error("x")
PlainError ==
    JsValue("object", FALSE, [ k \in { "name", "message" } |->
                                  IF k = "name" THEN "Error" ELSE "x" ])
\* { errorId: "test", status: 400 }
PlainObject ==
    JsValue("object", FALSE, [ k \in { "errorId", "status" } |->
                                  IF k = "errorId" THEN "test" ELSE "400" ])
\* { $type: "SomethingElse" }
WrongTag == JsValue("object", FALSE, [ k \in { "$type" } |-> "SomethingElse" ])
\* The values isApiError may be given besides the result of a client call.
OtherValues ==
    { JsNull, JsUndefined, JsValue("string", FALSE, NoProps),
      JsValue("number", FALSE, NoProps), JsArray, PlainError, PlainObject,
      WrongTag }
\* An instance of the class ApiError: $type is a field of every instance.
ApiErrorInstance(e) ==
    JsValue("object", FALSE,
            [ k \in { "$type", "errorId", "status", "name", "message" } |->
                CASE k = "$type"   -> "ApiError"
                  [] k = "errorId" -> e.errorId
                  [] k = "status"  -> "a number"
                  [] k = "name"    -> e.name
                  [] OTHER         -> e.message ])
\* The value response.json() resolves with for a body that parses.
JsonValue(body) ==
    JsValue(IF body.kind \in { "object", "array", "null" } THEN "object"
            ELSE body.kind,
            body.kind = "null",
            IF body.kind = "object"
            THEN [ k \in { x \in { "errorId", "debugMessage", "$type" } :
                             IF x = "$type" THEN body.tag # "" ELSE body[x] # "" } |->
                     IF k = "$type" THEN body.tag ELSE body[k] ]
            ELSE NoProps)

\* ---- body streams
MaxChunks == 3
\* The bytes a chunk is made of: the digits 1 and 2, a letter, and the two
\* bytes "hi" "lo" that together encode one character.
Bytes == { "1", "2", "x", "hi", "lo" }
\* The chunks reader.read() may deliver.
Chunks ==
    { <<>>, << "1" >>, << "2" >>, << "x" >>, << "hi" >>, << "lo" >>,
      << "1", "hi" >>, << "lo", "2" >> }
\* The chunk sequences a body stream may emit before it closes.
Streams == UNION { [ 1..n -> Chunks ] : n \in 0..MaxChunks }
\* A body stream being read: the chunks it emits, how many of them were read,
\* and the bytes the TextDecoder holds back.
Stream(chunks, read, pending) ==
    [ chunks |-> chunks, read |-> read, pending |-> pending ]
NoStream == Stream(<<>>, 0, <<>>)
\* What a generator yields: a decoded text or a validated value.
TextChunk(text) == [ kind |-> "text", text |-> text, value |-> 0 ]
DataChunk(value) == [ kind |-> "data", text |-> <<>>, value |-> value ]

\* ---------------------------------------------------------------- requests
NoBody == "undefined"

\* The UTF-16 code of the characters the hashed strings are made of.
CharCodeAt ==
    [ ch \in { "0", "1", "4", "6", "7", "8", "9", ":", "a", "e", "f", "i",
               "j", "l", "n", "o", "s", "t", "|" } |->
        CASE ch = "0" -> 48  [] ch = "1" -> 49  [] ch = "4" -> 52
          [] ch = "6" -> 54  [] ch = "7" -> 55  [] ch = "8" -> 56
          [] ch = "9" -> 57  [] ch = ":" -> 58  [] ch = "a" -> 97
          [] ch = "e" -> 101 [] ch = "f" -> 102 [] ch = "i" -> 105
          [] ch = "j" -> 106 [] ch = "l" -> 108 [] ch = "n" -> 110
          [] ch = "o" -> 111 [] ch = "s" -> 115 [] ch = "t" -> 116
          [] OTHER -> 124 ]

\* JSON.stringify(fetchOptions.body) of the bodies that are no FormData, as
\* the sequence of its characters: a body named "json", and the numbers
\* 40189 and 797186.
Characters ==
    [ text \in { "json", "40189", "797186" } |->
        CASE text = "json"  -> << "j", "s", "o", "n" >>
          [] text = "40189" -> << "4", "0", "1", "8", "9" >>
          [] OTHER          -> << "7", "9", "7", "1", "8", "6" >> ]

\* An entry of a FormData: a file with its content, or a field.
FileEntry(key, name, size, type, content) ==
    [ key |-> key, file |-> TRUE, name |-> name, size |-> size, type |-> type,
      content |-> content, value |-> <<>> ]
FieldEntry(key, value) ==
    [ key |-> key, file |-> FALSE, name |-> <<>>, size |-> <<>>, type |-> <<>>,
      content |-> <<>>, value |-> value ]
\* The FormData bodies, in the order their entries were appended: a file and
\* a field, and the same with another file of the same name, size and type.
FormDatas ==
    [ body \in { "form", "form2" } |->
        << FileEntry(<< "f" >>, << "a" >>, << "1" >>, << "t" >>,
                     IF body = "form" THEN << "0" >> ELSE << "1" >>),
           FieldEntry(<< "a" >>, << "1" >>) >> ]
\* (url, fetchOptions) of a call: method, path and body kind.
Requests ==
    { [ method |-> "GET", url |-> "/data", body |-> NoBody, headers |-> NoHeaders ],
      [ method |-> "POST", url |-> "/data", body |-> "json", headers |-> NoHeaders ],
      [ method |-> "POST", url |-> "/data", body |-> "form", headers |-> NoHeaders ] }
NoReq == [ method |-> "", url |-> "", body |-> NoBody, headers |-> NoHeaders ]
\* The same requests with every header object a caller may pass.
RequestsWithHeaders ==
    { [ r EXCEPT !.headers = h ] : r \in Requests, h \in CallHeaders }

\* Call headers that authenticate two different users.
AuthorizationHeaders ==
    { [ k \in { "Authorization" } |-> v ] : v \in { "Bearer A", "Bearer B" } }
\* The requests whose registry keys are compared: requests without a body
\* that differ in method or URL, one of them with either Authorization
\* header, and requests with a body: two numbers, with either Authorization
\* header for one of them, and two FormData.
KeyRequests ==
    { [ method |-> "GET", url |-> "/data", body |-> NoBody, headers |-> NoHeaders ],
      [ method |-> "GET", url |-> "/data2", body |-> NoBody, headers |-> NoHeaders ],
      [ method |-> "POST", url |-> "/data", body |-> NoBody, headers |-> NoHeaders ],
      [ method |-> "POST", url |-> "/data_101e944b", body |-> NoBody,
        headers |-> NoHeaders ],
      [ method |-> "POST", url |-> "/data", body |-> "797186", headers |-> NoHeaders ],
      [ method |-> "POST", url |-> "/data", body |-> "form", headers |-> NoHeaders ],
      [ method |-> "POST", url |-> "/data", body |-> "form2", headers |-> NoHeaders ] }
    \cup { [ method |-> "GET", url |-> "/data", body |-> NoBody, headers |-> h ] :
             h \in AuthorizationHeaders }
    \cup { [ method |-> "POST", url |-> "/data", body |-> "40189", headers |-> h ] :
             h \in AuthorizationHeaders }

\* fetchOptions.signal: absent, supplied and not aborted, supplied and aborted.
SignalStates == { "none", "armed", "aborted" }

\* ------------------------------------------------------------------- state
VARIABLES
    cfg,             \* the options the Fetcher was built with (never changes)
    env,             \* what the callers and the platform may do (never changes)
    pc,              \* where each call stands in the pipeline
    req,             \* the request of each call
    signal,          \* the state of each call's fetchOptions.signal
    pendingRequests, \* the registry of the builder: a set of [key, owner] entries
    cycle,           \* the fetch/retry cycle each call started (fetchPromise)
    joinedOn,        \* the call whose pending promise a call returned, or 0
    fetchCalls,      \* how many times the platform fetch has been called
    fetcherResult,   \* how each Fetcher call settled
    hookCalls,       \* per call: invocations of beforeRequest, afterResponse, onError
    clientResult,    \* how each apiFetch / apiStreamFetch call settled
    via,             \* the Fetcher (the build() result) each call was made through, or 0
    requestOptions,  \* the RequestInit each call built for fetch
    log,             \* per call: its hook invocations and fetch calls, in order
    received,        \* per call: the client operation and what the response held
    stream,          \* per call: the chunks the response body has yet to emit
    yielded,         \* per call: the values the generator has yielded, in order
    console,         \* per call: what the Fetcher wrote to the console
    inputs,          \* history, per call: what the caller, the hooks, the
                     \* timer and the platform fetch did, in order
    chain,           \* the builders made so far, the Fetcher built from one
                     \* of them and the URL its call passed to fetch
    verdict,         \* per call: the value isApiError was last applied to by
                     \* the code that made the call, and what it answered
    lookupOverlap    \* history: the calls with the same fingerprint whose
                     \* cycle was still pending when this call looked it up

vars == << cfg, env, verdict, chain, console, inputs, pc, req, signal, pendingRequests, cycle, joinedOn, fetchCalls,
           fetcherResult, hookCalls, clientResult, via, requestOptions, log,
           received, stream, yielded, lookupOverlap >>

\* The RequestInit of a call that has not built one.
NoRequestOptions ==
    [ headers |-> NoHeaders, body |-> [ type |-> "undefined", text |-> "" ] ]

\* The fetch/retry cycle of a call before it has started one.
NoCycle ==
    [ state       |-> "none",   \* none, inflight, delay, resolved, rejected
      key         |-> << >>,    \* the cacheKey the cycle was started under
      retriesLeft |-> 0,        \* executeWithRetry's argument
      attempts    |-> 0,        \* fetch calls made by this cycle
      failures    |-> 0,        \* attempts that rejected or answered a status in retryOn
      fetchId     |-> << 0, 0 >>,\* the attempt in flight: the call and the attempt number
      sent        |-> NoRequestOptions, \* the RequestInit the cycle gives to fetch
      timers      |-> {},       \* the attempts whose timeout timer is armed
      listener    |-> FALSE,    \* the caller's signal forwards to the attempt's controller
      direct      |-> FALSE,    \* the attempt was given the caller's own signal
      aborted     |-> FALSE,    \* the signal given to the attempt in flight is aborted
      abortedBy   |-> "none",   \* none, timer, caller
      last        |-> NoOutcome,\* how the latest attempt settled
      result      |-> NoOutcome ]\* what the cycle's promise settled with

NoHooks == [ beforeRequest |-> 0, afterResponse |-> 0, onError |-> 0 ]

\* What a client operation was given: which operation it is, how
\* response.json() and options.schema behave, and the body of the response.
Received(op, json, schema, body) ==
    [ op |-> op, json |-> json, schema |-> schema, body |-> body ]
NoReceived == Received("none", "", "", NoResponseBody)

NoClientResult == [ kind |-> "none", what |-> "", resp |-> NoResp, error |-> NoErr ]
\* apiFetch / apiStreamFetch resolved with a success value.
Value(what, r) == [ kind |-> "value", what |-> what, resp |-> r, error |-> NoErr ]
\* ... resolved with an ApiError.
ErrorValue(e) == [ kind |-> "apiError", what |-> "", resp |-> NoResp, error |-> e ]
\* ... rejected with a raw thrown value.
Thrown(e) == [ kind |-> "rejected", what |-> "", resp |-> NoResp, error |-> e ]

\* No isApiError call made yet. `of` tells what the value is: "result" the
\* value the client call resolved with, "value" any other value.
NoVerdict == [ of |-> "none", value |-> JsUndefined, isApiError |-> FALSE ]

\* The state right after build(): no call made, the registry empty.
Built ==
    /\ pc = [c \in Calls |-> "idle"]
    /\ req = [c \in Calls |-> NoReq]
    /\ signal = [c \in Calls |-> "none"]
    /\ pendingRequests = {}
    /\ cycle = [c \in Calls |-> NoCycle]
    /\ joinedOn = [c \in Calls |-> 0]
    /\ fetchCalls = 0
    /\ fetcherResult = [c \in Calls |-> NoOutcome]
    /\ hookCalls = [c \in Calls |-> NoHooks]
    /\ clientResult = [c \in Calls |-> NoClientResult]
    /\ via = [c \in Calls |-> 0]
    /\ requestOptions = [c \in Calls |-> NoRequestOptions]
    /\ log = [c \in Calls |-> << >>]
    /\ chain = NewChain
    /\ console = [c \in Calls |-> <<>>]
    /\ inputs = [c \in Calls |-> <<>>]
    /\ received = [c \in Calls |-> NoReceived]
    /\ stream = [c \in Calls |-> NoStream]
    /\ yielded = [c \in Calls |-> << >>]
    /\ verdict = [c \in Calls |-> NoVerdict]
    /\ lookupOverlap = [c \in Calls |-> {}]

\* Concurrent calls through one Fetcher, without caller signals or timeout.
Init ==
    /\ cfg \in SharedConfigs
    /\ env = [ callers |-> Calls, signals |-> { "none" },
               requests |-> { r \in Requests : r.body # "json" },
               fetchers |-> { 1 }, throws |-> { HookError },
               statuses |-> Statuses, bodies |-> PlainBodies,
               jsons |-> Jsons, schemas |-> Schemas,
               generators |-> {}, debug |-> {},
               history |-> FALSE ]
    /\ Built

\* Concurrent calls through the Fetchers that two build() calls on one
\* builder object return: both close over that builder's pendingRequests.
InitBuilds ==
    /\ cfg \in { o \in SharedConfigs :
                    o.retries = 1 /\ o.beforeRequest /\ o.afterResponse }
    /\ env = [ callers |-> Calls, signals |-> { "none" },
               requests |-> { r \in Requests : r.body # "json" },
               fetchers |-> { 1, 2 }, throws |-> { HookError },
               statuses |-> Statuses, bodies |-> PlainBodies,
               jsons |-> Jsons, schemas |-> Schemas,
               generators |-> {}, debug |-> {},
               history |-> FALSE ]
    /\ Built

\* One call with every combination of builder headers, auth, call headers
\* and body, nothing else configured.
InitRequest ==
    /\ cfg \in RequestConfigs
    /\ env = [ callers |-> { 1 }, signals |-> { "none" },
               requests |-> RequestsWithHeaders,
               fetchers |-> { 1 }, throws |-> { HookError },
               statuses |-> Statuses, bodies |-> PlainBodies,
               jsons |-> Jsons, schemas |-> Schemas,
               generators |-> {}, debug |-> {},
               history |-> FALSE ]
    /\ Built

\* One call of a client operation with nothing configured, for every status,
\* body and body stream of the response.
InitClient ==
    /\ cfg \in { o \in Configs :
                    /\ ~o.dedupeRequests /\ o.retries = 0 /\ o.retryOn = NoList
                    /\ ~o.timeout /\ ~o.beforeRequest /\ ~o.afterResponse
                    /\ ~o.onError }
    /\ env = [ callers |-> { 1 }, signals |-> { "none", "aborted" },
               requests |-> { r \in Requests : r.body = NoBody },
               fetchers |-> { 1 }, throws |-> { HookError },
               statuses |-> Statuses \cup { 404 }, bodies |-> ErrorBodies,
               jsons |-> Jsons, schemas |-> Schemas,
               generators |-> { "apiFetchTextMany", "apiFetchMany" }, debug |-> {},
               history |-> FALSE ]
    /\ Built

\* One apiFetch / apiStreamFetch call without a schema whose result, like
\* other values, is given to isApiError; an ok response may carry any payload.
InitResult ==
    /\ cfg \in { o \in Configs :
                    /\ ~o.dedupeRequests /\ o.retries = 0 /\ o.retryOn = NoList
                    /\ ~o.timeout /\ ~o.beforeRequest /\ ~o.afterResponse
                    /\ ~o.onError }
    /\ env = [ callers |-> { 1 }, signals |-> { "none" },
               requests |-> { r \in Requests : r.body = NoBody },
               fetchers |-> { 1 }, throws |-> { HookError },
               statuses |-> Statuses, bodies |-> Payloads,
               jsons |-> Jsons, schemas |-> { "none" },
               generators |-> {}, debug |-> {},
               history |-> FALSE ]
    /\ Built

\* Concurrent calls through a Fetcher with deduplication and nothing else,
\* for requests that differ in method, URL, body or headers.
InitKeys ==
    /\ cfg \in { o \in Configs :
                    /\ o.dedupeRequests /\ o.retries = 0 /\ o.retryOn = NoList
                    /\ ~o.timeout /\ ~o.beforeRequest /\ ~o.afterResponse
                    /\ ~o.onError }
    /\ env = [ callers |-> Calls, signals |-> { "none" },
               requests |-> KeyRequests,
               fetchers |-> { 1 }, throws |-> { HookError },
               statuses |-> Statuses, bodies |-> PlainBodies,
               jsons |-> Jsons, schemas |-> Schemas,
               generators |-> {}, debug |-> {},
               history |-> FALSE ]
    /\ Built

\* One call through a Fetcher with a timeout and any retry budget, without
\* hooks and caller signal; the history of what the timers and the platform
\* fetch did is kept.
InitTimeout ==
    /\ cfg \in { o \in Configs :
                    /\ o.timeout /\ ~o.dedupeRequests
                    /\ o.retryOn \in { NoList, { 500 } }
                    /\ ~o.beforeRequest /\ ~o.afterResponse /\ ~o.onError }
    /\ env = [ callers |-> { 1 }, signals |-> { "none" },
               requests |-> { r \in Requests : r.body # "json" },
               fetchers |-> { 1 }, throws |-> { HookError },
               statuses |-> Statuses,
               bodies |-> { b \in PlainBodies : b.errorId # "" },
               jsons |-> Jsons, schemas |-> { "none" },
               generators |-> {}, debug |-> {},
               history |-> TRUE ]
    /\ Built

\* createFetcherBuilder(): the first builder of a chain, no Fetcher built.
InitBuilder == InitClient

\* The same call made twice, one after the other: call 1 through the Fetcher
\* built with enableDebug(), call 2 through the Fetcher built without it from
\* otherwise the same options. The history of inputs of each call is kept.
InitDebug ==
    /\ cfg \in { o \in Configs : o.retries <= 1 /\ o.retryOn \in { NoList, { 500 } } }
    /\ env = [ callers |-> { 1, 2 }, signals |-> { "none" },
               requests |-> { r \in Requests : r.body # "json" },
               fetchers |-> { 1 }, throws |-> { HookError },
               statuses |-> Statuses, bodies |-> PlainBodies,
               jsons |-> Jsons, schemas |-> Schemas,
               generators |-> {}, debug |-> { 1 },
               history |-> TRUE ]
    /\ Built

\* One call with everything configured, whose hooks may throw any value.
InitThrow ==
    /\ cfg \in { o \in Configs :
                    /\ o.dedupeRequests /\ o.timeout
                    /\ o.retries = 1 /\ o.retryOn = { 500 }
                    /\ o.beforeRequest /\ o.afterResponse }
    /\ env = [ callers |-> { 1 }, signals |-> SignalStates,
               requests |-> { r \in Requests : r.body # "json" },
               fetchers |-> { 1 }, throws |-> ThrownValues,
               statuses |-> Statuses, bodies |-> PlainBodies,
               jsons |-> Jsons, schemas |-> Schemas,
               generators |-> {}, debug |-> {},
               history |-> FALSE ]
    /\ Built

\* One call through the whole pipeline, under every configuration.
InitCall ==
    /\ cfg \in Configs
    /\ env = [ callers |-> { 1 }, signals |-> SignalStates,
               requests |-> { r \in Requests : r.body # "json" },
               fetchers |-> { 1 }, throws |-> { HookError },
               statuses |-> Statuses,
               bodies |-> { b \in PlainBodies : b.errorId # "" },
               jsons |-> Jsons, schemas |-> { "none" },
               generators |-> {}, debug |-> {},
               history |-> FALSE ]
    /\ Built

\* ------------------------------------------------------------- the builder
\* The keys of an object given by its entries.
Keys(entries) == { entries[i][1] : i \in 1..Len(entries) }
\* { ...a, ...b } of two objects given by their entries: a's keys keep their
\* place and take b's value where b has the key, b's other keys follow.
RECURSIVE SpreadEntries(_, _)
SpreadEntries(a, b) ==
    IF b = <<>> THEN a
    ELSE LET key == Head(b)[1]
             merged == IF key \in Keys(a)
                       THEN [ i \in 1..Len(a) |->
                                IF a[i][1] = key THEN Head(b) ELSE a[i] ]
                       ELSE Append(a, Head(b))
         IN  SpreadEntries(merged, Tail(b))

\* The options object a builder method hands to createFetcherBuilder:
\* { ...options, <what the method sets> }.
Applied(m, options) ==
    CASE m.name = "addHeader" ->
           [ options EXCEPT !.headers =
               Spread(@, [ k \in { m.arg[1] } |-> m.arg[2] ]) ]
      [] m.name = "setBaseURL" -> [ options EXCEPT !.baseURL = m.arg ]
      [] m.name = "setRequestTimeout" -> [ options EXCEPT !.timeout = m.arg ]
      [] m.name = "setRetries" ->
           [ options EXCEPT !.retries = m.arg, !.retryDelay = "1000",
                            !.retryOn = "undefined" ]
      [] m.name = "setAuth" -> [ options EXCEPT !.auth = m.arg ]
      [] m.name = "setBeforeRequest" -> [ options EXCEPT !.beforeRequest = m.arg ]
      [] m.name = "setAfterResponse" -> [ options EXCEPT !.afterResponse = m.arg ]
      [] m.name = "setOnError" -> [ options EXCEPT !.onError = m.arg ]
      [] m.name = "setQueryParams" ->
           [ options EXCEPT !.queryParams =
               [ defined |-> TRUE, entries |-> SpreadEntries(@.entries, m.arg) ] ]
      [] m.name = "setCredentials" -> [ options EXCEPT !.credentials = m.arg ]
      [] m.name = "setMode" -> [ options EXCEPT !.mode = m.arg ]
      [] m.name = "setCache" -> [ options EXCEPT !.cache = m.arg ]
      [] m.name = "enableDebug" -> [ options EXCEPT !.debug = TRUE ]
      [] m.name = "enableDeduplication" ->
           [ options EXCEPT !.dedupeRequests = TRUE ]

\* A builder method that assigns to the options of its own builder and
\* returns that builder.
AssignToBuilder(builders, b, options) == [ builders EXCEPT ![b] = options ]

\* createFetcherBuilder(options) called by a method of builder b: a builder
\* more, closing over the options object it was handed.
CreateFetcherBuilder(builders, b, options) == Append(builders, options)

\* urlObj.searchParams.set(key, value): the first pair with the key takes the
\* value and the other pairs with the key go, or the pair is appended.
SearchParamsSet(query, key, value) ==
    IF \E i \in 1..Len(query) : query[i][1] = key
    THEN LET first == CHOOSE i \in 1..Len(query) :
                         /\ query[i][1] = key
                         /\ \A j \in 1..(i - 1) : query[j][1] # key
         IN  SelectSeq([ i \in 1..Len(query) |->
                           IF i = first THEN << key, value >>
                           ELSE IF query[i][1] = key THEN << "", "" >>
                           ELSE query[i] ],
                       LAMBDA pair : pair # << "", "" >>)
    ELSE Append(query, << key, value >>)

RECURSIVE WithQueryParams(_, _)
WithQueryParams(query, entries) ==
    IF entries = <<>> THEN query
    ELSE WithQueryParams(SearchParamsSet(query, Head(entries)[1],
                                         Head(entries)[2].text),
                         Tail(entries))

\* new URL(fullURL, "http://localhost"): a relative URL is resolved against
\* the base.
NewURL(u) == [ u EXCEPT !.origin = IF @ = "" THEN "http://localhost" ELSE @ ]

\* fullURL: the URL the Fetcher passes to fetch for the url of a call.
FullURL(options, url) ==
    LET joined == Url(options.baseURL.origin, options.baseURL.path \o url.path,
                      url.query)
    IN  IF options.queryParams.defined
        THEN [ NewURL(joined) EXCEPT
                 !.query = WithQueryParams(@, options.queryParams.entries) ]
        ELSE joined

\* A method of builder b is called.
BuilderMethod(b) ==
    /\ b \in 1..Len(chain.options)
    /\ Len(chain.options) < MaxBuilders
    /\ \E m \in Methods :
         chain' = [ chain EXCEPT !.options =
                      CreateFetcherBuilder(@, b, Applied(m, @[b])) ]
    /\ UNCHANGED << cfg, env, verdict, console, inputs, pc, req, signal, pendingRequests, cycle, joinedOn,
                    fetchCalls, fetcherResult, hookCalls, clientResult, via,
                    requestOptions, log, received, stream, yielded, lookupOverlap >>

\* build() of builder b: the Fetcher closes over the builder's options.
Build(b) ==
    /\ b \in 1..Len(chain.options)
    /\ chain.fetcher = 0
    /\ chain' = [ chain EXCEPT !.fetcher = b ]
    /\ UNCHANGED << cfg, env, verdict, console, inputs, pc, req, signal, pendingRequests, cycle, joinedOn,
                    fetchCalls, fetcherResult, hookCalls, clientResult, via,
                    requestOptions, log, received, stream, yielded, lookupOverlap >>

\* The Fetcher is called and resolves the URL it passes to fetch.
FetcherCalled ==
    /\ chain.fetcher # 0
    /\ chain.sent = NoSent
    /\ \E url \in CallUrls :
         chain' = [ chain EXCEPT !.sent =
                      [ url |-> url,
                        fullURL |-> FullURL(chain.options[chain.fetcher], url) ] ]
    /\ UNCHANGED << cfg, env, verdict, console, inputs, pc, req, signal, pendingRequests, cycle, joinedOn,
                    fetchCalls, fetcherResult, hookCalls, clientResult, via,
                    requestOptions, log, received, stream, yielded, lookupOverlap >>

\* ------------------------------------------------------- the Fetcher: build
\* The body as RequestInit carries it: FormData passes through, anything else
\* goes through JSON.stringify (undefined stays undefined).
SerializedBody(body) ==
    CASE body \in DOMAIN FormDatas -> [ type |-> "FormData", text |-> body ]
      [] body = NoBody -> [ type |-> "undefined", text |-> "" ]
      [] OTHER         -> [ type |-> "string", text |-> body ]

\* btoa over the credentials the configurations hold.
Btoa(str) ==
    CASE str = "user:pass" -> "dXNlcjpwYXNz"
      [] OTHER             -> "dXNlcjo="

\* The Authorization value derived from options.auth, or "" when auth is
\* absent or incomplete.
AuthorizationOf(auth) ==
    IF auth.type = "bearer" /\ auth.token # ""
    THEN "Bearer " \o auth.token
    ELSE IF auth.type = "basic" /\ auth.username # "" /\ auth.password # ""
         THEN "Basic " \o Btoa(auth.username \o ":" \o auth.password)
         ELSE ""

\* The headers object after the auth block.
WithAuth(headers, auth) ==
    IF AuthorizationOf(auth) = ""
    THEN headers
    ELSE Spread(headers, [ k \in { "Authorization" } |-> AuthorizationOf(auth) ])

\* A Fetcher that leaves Content-Type in place for a FormData body.
RequestHeadersKeepingContentType(options, fetchOptions) ==
    WithAuth(Spread(Spread(DefaultHeaders, options.headers), fetchOptions.headers),
             options.auth)

\* The headers of requestOptions: default, builder and call headers spread in
\* that order, then the auth header, then Content-Type deleted for FormData.
RequestHeaders(options, fetchOptions) ==
    LET merged == Spread(Spread(DefaultHeaders, options.headers), fetchOptions.headers)
        authed == WithAuth(merged, options.auth)
    IN  IF fetchOptions.body = "form"
        THEN Without(authed, "Content-Type")
        ELSE authed

\* requestOptions as the call builds it.
RequestInit(options, fetchOptions) ==
    [ headers |-> RequestHeaders(options, fetchOptions),
      body    |-> SerializedBody(fetchOptions.body) ]

\* ---- hashString and hashFormData
\* a ^ b on the bits of two naturals.
RECURSIVE Xor(_, _)
Xor(a, b) ==
    IF a = 0 THEN b
    ELSE IF b = 0 THEN a
    ELSE ((a + b) % 2) + 2 * Xor(a \div 2, b \div 2)

\* A 32-bit unsigned integer as its two 16-bit halves.
Word(hi, lo) == [ hi |-> hi, lo |-> lo ]
\* 2166136261 = 0x811C9DC5
FnvOffsetBasis == Word(33052, 40389)

\* One round of the loop: hash ^= code, then hash times
\* 1 + 2^1 + 2^4 + 2^7 + 2^8 + 2^24 = 403 + 2^24, kept to 32 bits.
FnvRound(hash, code) ==
    LET lo == Xor(hash.lo, code)
        p  == lo * 403
    IN  Word((hash.hi * 403 + (p \div 65536) + (lo % 256) * 256) % 65536,
             p % 65536)

RECURSIVE FnvLoop(_, _)
FnvLoop(hash, str) ==
    IF str = <<>> THEN hash
    ELSE FnvLoop(FnvRound(hash, CharCodeAt[Head(str)]), Tail(str))

HexDigit(d) ==
    << "0", "1", "2", "3", "4", "5", "6", "7", "8", "9",
       "a", "b", "c", "d", "e", "f" >>[d + 1]
\* n.toString(16) of a natural, without leading zeros.
RECURSIVE Hex(_)
Hex(n) == IF n < 16 THEN HexDigit(n) ELSE Hex(n \div 16) \o HexDigit(n % 16)
\* The four hexadecimal digits of a 16-bit half.
Hex4(n) ==
    HexDigit(n \div 4096) \o HexDigit((n \div 256) % 16)
        \o HexDigit((n \div 16) % 16) \o HexDigit(n % 16)
\* (hash >>> 0).toString(16)
ToString16(hash) ==
    IF hash.hi = 0 THEN Hex(hash.lo) ELSE Hex(hash.hi) \o Hex4(hash.lo)

\* hashString over a string given as the sequence of its characters.
HashString(str) == ToString16(FnvLoop(FnvOffsetBasis, str))

\* The string an entry of a FormData is hashed as: a file by its name, size
\* and type, any other value by its string form.
EntryString(e) ==
    IF e.file
    THEN e.key \o << ":", "f", "i", "l", "e", ":" >> \o e.name \o << ":" >>
             \o e.size \o << ":" >> \o e.type
    ELSE e.key \o << ":" >> \o e.value

\* a < b as Array.prototype.sort compares two strings by default.
RECURSIVE StringLess(_, _)
StringLess(a, b) ==
    IF b = <<>> THEN FALSE
    ELSE IF a = <<>> THEN TRUE
    ELSE IF Head(a) = Head(b) THEN StringLess(Tail(a), Tail(b))
    ELSE CharCodeAt[Head(a)] < CharCodeAt[Head(b)]

\* entries.sort()
RECURSIVE InsertSorted(_, _)
InsertSorted(sorted, x) ==
    IF sorted = <<>> THEN << x >>
    ELSE IF StringLess(x, Head(sorted)) THEN << x >> \o sorted
    ELSE << Head(sorted) >> \o InsertSorted(Tail(sorted), x)
RECURSIVE Sorted(_)
Sorted(entries) ==
    IF entries = <<>> THEN <<>>
    ELSE InsertSorted(Sorted(Tail(entries)), Head(entries))

\* entries.join("|")
RECURSIVE JoinWith(_, _)
JoinWith(entries, sep) ==
    IF entries = <<>> THEN <<>>
    ELSE IF Len(entries) = 1 THEN Head(entries)
    ELSE Head(entries) \o sep \o JoinWith(Tail(entries), sep)

\* hashFormData
HashFormData(formData) ==
    HashString(JoinWith(Sorted([ i \in 1..Len(formData) |-> EntryString(formData[i]) ]),
                        << "|" >>))

\* hashString and hashFormData of the bodies the calls send, each computed
\* once.
StringHashes == [ text \in DOMAIN Characters |-> HashString(Characters[text]) ]
FormDataHashes == [ body \in DOMAIN FormDatas |-> HashFormData(FormDatas[body]) ]

\* requestOptions.method || "GET"
MethodOrGet(method) == IF method = "" THEN "GET" ELSE method

\* A registry key that takes the Authorization header in.
CacheKeyWithAuthorization(r, dedupeRequests) ==
    << MethodOrGet(r.method), r.url, r.body,
       IF "Authorization" \in DOMAIN r.headers
       THEN r.headers["Authorization"] ELSE "" >>

\* The registry key of a request: method, "_" and URL, and "_" and the hash
\* of the body when deduplication is enabled and there is a body.
CacheKey(r, dedupeRequests) ==
    LET b    == SerializedBody(r.body)
        base == MethodOrGet(r.method) \o "_" \o r.url
    IN  IF b.type # "undefined" /\ dedupeRequests
        THEN IF b.type = "string"
             THEN base \o "_" \o StringHashes[b.text]
             ELSE base \o "_" \o FormDataHashes[b.text]
        ELSE base

\* hashFormData is awaited before the lookup for a FormData body.
AwaitsBodyHash(r, dedupeRequests) ==
    SerializedBody(r.body).type = "FormData" /\ dedupeRequests

\* pendingRequests.get(cacheKey): the owners of the entries under the key.
RegistryGet(registry, key) == { e.owner : e \in { x \in registry : x.key = key } }

\* A Fetcher that starts the cycle and leaves the registry as it is.
RegistryWithoutSet(registry, key, owner) == registry

\* pendingRequests.set(cacheKey, fetchPromise)
RegistrySet(registry, key, owner) ==
    { e \in registry : e.key # key } \cup { [ key |-> key, owner |-> owner ] }

\* The entry deleted after a response only, not in a finally block.
RegistryAfterSettleOnSuccess(registry, key, outcome) ==
    IF outcome.kind = "resolved"
    THEN { e \in registry : e.key # key }
    ELSE registry

\* The finally block around the deduplicated cycle: pendingRequests.delete.
RegistryAfterSettle(registry, key, outcome) ==
    { e \in registry : e.key # key }

\* options.retries ? executeWithRetry(fetchFn, options.retries) : fetchFn()
InitialRetriesLeft(retries) == IF retries # 0 THEN retries ELSE 0

\* executeWithRetry retrying once more than the budget allows.
ShouldRetryOffByOne(retriesLeft, outcome, retryOn) ==
    IF outcome.kind = "resolved"
    THEN /\ retriesLeft >= 0
         /\ retryOn # NoList
         /\ outcome.resp.status \in retryOn
    ELSE retriesLeft >= 0

\* executeWithRetry retrying every non-ok response when no retryOn list is set.
ShouldRetryNonOk(retriesLeft, outcome, retryOn) ==
    IF outcome.kind = "resolved"
    THEN /\ retriesLeft > 0
         /\ IF retryOn = NoList
            THEN ~IsOk(outcome.resp.status)
            ELSE outcome.resp.status \in retryOn
    ELSE retriesLeft > 0

\* executeWithRetry retrying a rejection whatever the budget.
ShouldRetryForever(retriesLeft, outcome, retryOn) ==
    IF outcome.kind = "resolved"
    THEN /\ retriesLeft > 0
         /\ retryOn # NoList
         /\ outcome.resp.status \in retryOn
    ELSE TRUE

\* executeWithRetry rethrowing the error of an aborted attempt at once.
ShouldRetryUnlessAborted(retriesLeft, outcome, retryOn) ==
    IF outcome.kind = "resolved"
    THEN /\ retriesLeft > 0
         /\ retryOn # NoList
         /\ outcome.resp.status \in retryOn
    ELSE retriesLeft > 0 /\ outcome.err.name # "AbortError"

\* executeWithRetry: whether the attempt that settled with outcome is followed
\* by another one. retriesLeft is 0 when the cycle runs fetchFn directly.
ShouldRetry(retriesLeft, outcome, retryOn) ==
    IF outcome.kind = "resolved"
    THEN /\ retriesLeft > 0
         /\ retryOn # NoList
         /\ outcome.resp.status \in retryOn
    ELSE retriesLeft > 0

\* executeWithRetry giving up with an error of its own once the budget is spent.
ExecuteWithRetryGivesUp(cyc, outcome) ==
    IF cyc.attempts > 1 /\ cyc.retriesLeft = 0
    THEN Rejected(JsErr("object", "Error", "", "retries exhausted"))
    ELSE outcome

\* executeWithRetry: what the cycle settles with when the attempt that settled
\* with outcome is not retried: `return response` or `throw error`.
ExecuteWithRetryResult(cyc, outcome) == outcome

\* fetchFn calling fetch with requestOptions instead of the controller's
\* signal: neither the timer nor the forwarded abort reaches the attempt.
NewAttemptWithoutControllerSignal(cyc, sig, timeout, id) ==
    [ cyc EXCEPT
        !.state = "inflight",
        !.attempts = @ + 1,
        !.fetchId = id,
        !.listener = FALSE,
        !.direct = sig # "none",
        !.aborted = sig = "aborted",
        !.abortedBy = IF sig = "aborted" THEN "caller" ELSE "none" ]

\* fetchFn replacing the caller's signal by the controller's without
\* forwarding its abort.
NewAttemptReplacingSignal(cyc, sig, timeout, id) ==
    [ cyc EXCEPT
        !.state = "inflight",
        !.attempts = @ + 1,
        !.fetchId = id,
        !.timers = IF timeout THEN @ \cup { id[2] } ELSE @,
        !.listener = FALSE,
        !.direct = ~timeout /\ sig # "none",
        !.aborted = ~timeout /\ sig = "aborted",
        !.abortedBy = IF ~timeout /\ sig = "aborted" THEN "caller" ELSE "none" ]

\* fetchFn: one fetch attempt of cycle cyc, named id, for
\* a call whose signal is in state sig.
\* With a timeout the attempt gets a fresh controller's signal and a timer,
\* and an existing caller signal gets an abort listener (which an already
\* aborted signal never fires). Without one the attempt is given the caller's
\* own signal, aborted or not.
NewAttempt(cyc, sig, timeout, id) ==
    [ cyc EXCEPT
        !.state = "inflight",
        !.attempts = @ + 1,
        !.fetchId = id,
        !.timers = IF timeout THEN @ \cup { id[2] } ELSE @,
        !.listener = timeout /\ sig # "none",
        !.direct = ~timeout /\ sig # "none",
        !.aborted = ~timeout /\ sig = "aborted",
        !.abortedBy = IF ~timeout /\ sig = "aborted" THEN "caller" ELSE "none" ]

\* Whether an abort of the caller's signal reaches the attempt in flight.
CallerAbortReaches(cyc) ==
    cyc.state = "inflight" /\ ~cyc.aborted /\ (cyc.direct \/ cyc.listener)

\* Whether the attempt's timer, firing, aborts the attempt in flight.
TimerAborts(cyc) ==
    cyc.state = "inflight" /\ cyc.fetchId[2] \in cyc.timers /\ ~cyc.aborted

\* The timer of attempt k fires: the controller of attempt k is aborted,
\* which aborts that attempt if it is still in flight and not yet aborted.
TimerFired(cyc, k) ==
    LET fired == [ cyc EXCEPT !.timers = @ \ { k } ]
    IN  IF cyc.state = "inflight" /\ cyc.fetchId[2] = k /\ ~cyc.aborted
        THEN [ fired EXCEPT !.aborted = TRUE, !.abortedBy = "timer" ]
        ELSE fired

\* A fetchFn without the finally block: the timer stays armed.
LeaveTimeout(timers, k) == timers

\* clearTimeout(timeoutId) in the finally block of fetchFn.
ClearTimeout(timers, k) == timers \ { k }

\* How the platform fetch may settle an attempt: an aborted signal rejects it
\* with the AbortError, otherwise it answers a status or fails.
FetchOutcomes(cyc, statuses) ==
    IF cyc.aborted
    THEN { Rejected(AbortError) }
    ELSE { Resolved(Resp(cyc.fetchId, s, "fetch")) : s \in statuses }
            \cup { Rejected(NetworkError) }

\* An attempt that counts as a failure for the retry budget: it rejected, or it
\* answered a status of the configured retryOn list.
IsFailure(outcome, retryOn) ==
    \/ outcome.kind = "rejected"
    \/ /\ outcome.kind = "resolved"
       /\ retryOn # NoList
       /\ outcome.resp.status \in retryOn

\* ----------------------------------------------------- the Fetcher: actions
\* The request fingerprint of the specification: method, resolved URL, body.
Fingerprint(r) == << r.method, r.url, r.body >>

\* A cycle that has been started and has not settled.
IsPending(cyc) == cyc.state \in { "inflight", "delay" }
IsSettled(cyc) == cyc.state \in { "resolved", "rejected" }

\* Whether call c goes through the Fetcher that was built with enableDebug().
Debug(c) == c \in env.debug

\* console.log / console.error when options.debug is set.
ConsoleLog(out, debug, entry) == IF debug THEN Append(out, entry) ELSE out
\* What is written before the request is sent, after the response was
\* received, and in the catch block.
RequestLogged(r, headers) ==
    [ level |-> "log", method |-> r.method, url |-> r.url, headers |-> headers,
      body |-> r.body, status |-> 0, ok |-> FALSE, error |-> NoErr ]
ResponseLogged(r, resp) ==
    [ level |-> "log", method |-> "", url |-> r.url, headers |-> NoHeaders,
      body |-> NoBody, status |-> resp.status, ok |-> IsOk(resp.status),
      error |-> NoErr ]
ErrorLogged(e) ==
    [ level |-> "error", method |-> "", url |-> "", headers |-> NoHeaders,
      body |-> NoBody, status |-> 0, ok |-> FALSE, error |-> e ]

\* One thing that happened to a call from outside the Fetcher.
Input(event, r, detail, status, e) ==
    [ event |-> event, req |-> r, detail |-> detail, status |-> status, err |-> e ]

\* The history of call c with one input more, where a history is kept.
Remember(c, input) ==
    IF env.history THEN [ inputs EXCEPT ![c] = Append(@, input) ] ELSE inputs

\* A catch block that leaves onError out when debug is set.
FailQuietlyInDebug(c, e) ==
    /\ hookCalls' = [ hookCalls EXCEPT ![c].onError =
                         IF cfg.onError /\ ~Debug(c) THEN @ + 1 ELSE @ ]
    /\ log' = [ log EXCEPT ![c] =
                   IF cfg.onError /\ ~Debug(c) THEN Append(@, "onError") ELSE @ ]
    /\ console' = [ console EXCEPT ![c] =
                       ConsoleLog(@, Debug(c), ErrorLogged(e)) ]
    /\ fetcherResult' = [ fetcherResult EXCEPT ![c] = Rejected(e) ]
    /\ pc' = [ pc EXCEPT ![c] = "settled" ]

\* A catch block that throws the error again without calling onError.
FailSilently(c, e) ==
    /\ fetcherResult' = [ fetcherResult EXCEPT ![c] = Rejected(e) ]
    /\ pc' = [ pc EXCEPT ![c] = "settled" ]
    /\ console' = [ console EXCEPT ![c] =
                       ConsoleLog(@, Debug(c), ErrorLogged(e)) ]
    /\ UNCHANGED << hookCalls, log >>

\* The catch block of the Fetcher: onError is called when configured and the
\* error is thrown again.
Fail(c, e) ==
    /\ hookCalls' = [ hookCalls EXCEPT ![c].onError =
                         IF cfg.onError THEN @ + 1 ELSE @ ]
    /\ log' = [ log EXCEPT ![c] = IF cfg.onError THEN Append(@, "onError") ELSE @ ]
    /\ console' = [ console EXCEPT ![c] =
                       ConsoleLog(@, Debug(c), ErrorLogged(e)) ]
    /\ fetcherResult' = [ fetcherResult EXCEPT ![c] = Rejected(e) ]
    /\ pc' = [ pc EXCEPT ![c] = "settled" ]

\* The synchronous stretch from the registry lookup to `await fetchPromise`:
\* a pending entry under the key is returned as it is; otherwise the cycle is
\* started (its first fetch is called) and, with deduplication, stored.
StartOrJoin(c, r, sig) ==
    LET key   == CacheKey(r, cfg.dedupeRequests)
        found == IF cfg.dedupeRequests
                 THEN RegistryGet(pendingRequests, key) ELSE {}
    IN  /\ lookupOverlap' = [ lookupOverlap EXCEPT ![c] =
              { d \in Calls \ {c} :
                  IsPending(cycle[d]) /\ Fingerprint(req[d]) = Fingerprint(r) } ]
        /\ IF found # {}
           THEN /\ joinedOn' = [ joinedOn EXCEPT ![c] = CHOOSE d \in found : TRUE ]
                /\ pc' = [ pc EXCEPT ![c] = "joined" ]
                /\ UNCHANGED << cycle, pendingRequests, fetchCalls, log >>
           ELSE /\ cycle' = [ cycle EXCEPT ![c] =
                     NewAttempt([ NoCycle EXCEPT
                                    !.key = key,
                                    !.sent = RequestInit(cfg, r),
                                    !.retriesLeft = InitialRetriesLeft(cfg.retries) ],
                                sig, cfg.timeout, << c, 1 >>) ]
                /\ fetchCalls' = fetchCalls + 1
                /\ log' = [ log EXCEPT ![c] = Append(@, "fetch") ]
                /\ pendingRequests' =
                     IF cfg.dedupeRequests
                     THEN RegistrySet(pendingRequests, key, c)
                     ELSE pendingRequests
                /\ pc' = [ pc EXCEPT ![c] = "awaitFetch" ]
                /\ UNCHANGED joinedOn

\* The stretch after beforeRequest: the request is logged in debug mode and
\* the cache key is computed, which awaits hashFormData for a FormData body
\* under deduplication.
AfterBeforeRequest(c, r, sig) ==
    /\ console' = [ console EXCEPT ![c] =
                       ConsoleLog(@, Debug(c),
                                  RequestLogged(r, RequestInit(cfg, r).headers)) ]
    /\ IF AwaitsBodyHash(r, cfg.dedupeRequests)
       THEN /\ pc' = [ pc EXCEPT ![c] = "hashing" ]
            /\ UNCHANGED << cycle, pendingRequests, fetchCalls, joinedOn,
                            lookupOverlap, log >>
       ELSE StartOrJoin(c, r, sig)

\* A Fetcher that goes on to the fetch without calling beforeRequest.
CallSkippingBeforeRequest(c) ==
    /\ pc[c] = "idle"
    /\ c \in env.callers
    /\ \E r \in env.requests, sig \in env.signals, f \in env.fetchers :
         /\ req' = [ req EXCEPT ![c] = r ]
         /\ signal' = [ signal EXCEPT ![c] = sig ]
         /\ via' = [ via EXCEPT ![c] = f ]
         /\ requestOptions' = [ requestOptions EXCEPT ![c] = RequestInit(cfg, r) ]
         /\ inputs' = Remember(c, Input("call", r, sig, 0, NoErr))
         /\ AfterBeforeRequest(c, r, sig)
         /\ UNCHANGED hookCalls
    /\ UNCHANGED << cfg, env, verdict, chain, fetcherResult, clientResult, received, stream, yielded >>

\* fetcher(url, fetchOptions): URL, headers and RequestInit are built, then
\* beforeRequest is called and awaited when configured.
Call(c) ==
    /\ pc[c] = "idle"
    /\ c \in env.callers
    /\ \E r \in env.requests, sig \in env.signals, f \in env.fetchers :
         /\ req' = [ req EXCEPT ![c] = r ]
         /\ signal' = [ signal EXCEPT ![c] = sig ]
         /\ via' = [ via EXCEPT ![c] = f ]
         /\ requestOptions' = [ requestOptions EXCEPT ![c] = RequestInit(cfg, r) ]
         /\ inputs' = Remember(c, Input("call", r, sig, 0, NoErr))
         /\ IF cfg.beforeRequest
            THEN /\ pc' = [ pc EXCEPT ![c] = "beforeRequest" ]
                 /\ hookCalls' = [ hookCalls EXCEPT ![c].beforeRequest = @ + 1 ]
                 /\ log' = [ log EXCEPT ![c] = Append(@, "beforeRequest") ]
                 /\ UNCHANGED << cycle, pendingRequests, fetchCalls, joinedOn,
                                 lookupOverlap, console >>
            ELSE /\ AfterBeforeRequest(c, r, sig)
                 /\ UNCHANGED hookCalls
    /\ UNCHANGED << cfg, env, verdict, chain, fetcherResult, clientResult, received, stream, yielded >>

\* The awaited beforeRequest hook returns, or throws.
BeforeRequestReturns(c) ==
    /\ pc[c] = "beforeRequest"
    /\ \/ /\ AfterBeforeRequest(c, req[c], signal[c])
          /\ inputs' = Remember(c, Input("beforeRequest", NoReq, "returns", 0, NoErr))
          /\ UNCHANGED << hookCalls, fetcherResult >>
       \/ /\ \E e \in env.throws :
               /\ Fail(c, e)
               /\ inputs' = Remember(c, Input("beforeRequest", NoReq, "throws", 0, e))
          /\ UNCHANGED << cycle, pendingRequests, fetchCalls, joinedOn, lookupOverlap >>
    /\ UNCHANGED << cfg, env, verdict, chain, received, stream, yielded, via, requestOptions, req, signal, clientResult >>

\* The awaited hashFormData returns.
BodyHashed(c) ==
    /\ pc[c] = "hashing"
    /\ StartOrJoin(c, req[c], signal[c])
    /\ UNCHANGED << cfg, env, verdict, chain, console, inputs, received, stream, yielded, via, requestOptions, req, signal, fetcherResult, hookCalls, clientResult >>

\* The caller aborts the signal it passed in fetchOptions.
CallerAborts(c) ==
    /\ pc[c] \notin { "idle", "done" }
    /\ signal[c] = "armed"
    /\ signal' = [ signal EXCEPT ![c] = "aborted" ]
    /\ cycle' = [ cycle EXCEPT ![c] =
                    IF CallerAbortReaches(@)
                    THEN [ @ EXCEPT !.aborted = TRUE, !.abortedBy = "caller" ]
                    ELSE @ ]
    /\ inputs' = Remember(c, Input("signal", NoReq, "aborted", 0, NoErr))
    /\ UNCHANGED << cfg, env, verdict, chain, console, received, stream, yielded, via, requestOptions, log, pc, req, pendingRequests, joinedOn, fetchCalls,
                    fetcherResult, hookCalls, clientResult, lookupOverlap >>

\* A timeout timer that is armed fires: controller.abort().
TimeoutFires(c) ==
    /\ \E k \in cycle[c].timers :
         cycle' = [ cycle EXCEPT ![c] = TimerFired(@, k) ]
    /\ inputs' = Remember(c, Input("timer", NoReq, "fires", 0, NoErr))
    /\ UNCHANGED << cfg, env, verdict, chain, console, received, stream, yielded, via, requestOptions, log, pc, req, signal, pendingRequests, joinedOn, fetchCalls,
                    fetcherResult, hookCalls, clientResult, lookupOverlap >>

\* The platform fetch settles the attempt in flight; fetchFn clears the timer
\* and executeWithRetry either waits for the retry delay or settles the cycle,
\* whose finally block then deletes the registry entry.
FetchSettles(c) ==
    /\ cycle[c].state = "inflight"
    /\ \E o \in FetchOutcomes(cycle[c], env.statuses) :
         /\ inputs' = Remember(c, Input("fetch", NoReq, o.kind, o.resp.status, o.err))
         /\ LET cyc == [ cycle[c] EXCEPT
                           !.timers = ClearTimeout(@, cycle[c].fetchId[2]),
                           !.last = o,
                           !.failures = IF IsFailure(o, cfg.retryOn) THEN @ + 1 ELSE @ ]
            IN  IF ShouldRetry(cyc.retriesLeft, o, cfg.retryOn)
                THEN /\ cycle' = [ cycle EXCEPT ![c] =
                          [ cyc EXCEPT !.state = "delay", !.retriesLeft = @ - 1 ] ]
                     /\ UNCHANGED pendingRequests
                ELSE /\ cycle' = [ cycle EXCEPT ![c] =
                          LET r == ExecuteWithRetryResult(cyc, o)
                          IN  [ cyc EXCEPT !.state = r.kind, !.result = r ] ]
                     /\ pendingRequests' =
                          IF cfg.dedupeRequests
                          THEN RegistryAfterSettle(pendingRequests, cyc.key, o)
                          ELSE pendingRequests
    /\ UNCHANGED << cfg, env, verdict, chain, console, received, stream, yielded, via, requestOptions, log, pc, req, signal, joinedOn, fetchCalls, fetcherResult,
                    hookCalls, clientResult, lookupOverlap >>

\* A retry that calls beforeRequest again before its fetch.
RetryDelayElapsesCallingHook(c) ==
    /\ cycle[c].state = "delay"
    /\ cycle[c].attempts <= MaxRetries
    /\ cycle' = [ cycle EXCEPT ![c] =
                    NewAttempt(@, signal[c], cfg.timeout, << c, @.attempts + 1 >>) ]
    /\ fetchCalls' = fetchCalls + 1
    /\ hookCalls' = [ hookCalls EXCEPT ![c].beforeRequest =
                         IF cfg.beforeRequest THEN @ + 1 ELSE @ ]
    /\ log' = [ log EXCEPT ![c] =
                   IF cfg.beforeRequest
                   THEN @ \o << "beforeRequest", "fetch" >>
                   ELSE Append(@, "fetch") ]
    /\ UNCHANGED << cfg, env, verdict, chain, console, inputs, received, stream, yielded, via, requestOptions, pc, req, signal, pendingRequests,
                    joinedOn, fetcherResult, clientResult, lookupOverlap >>

\* The retry delay has passed: executeWithRetry calls fetchFn again.
RetryDelayElapses(c) ==
    /\ cycle[c].state = "delay"
    /\ cycle[c].attempts <= MaxRetries
    /\ cycle' = [ cycle EXCEPT ![c] =
                    NewAttempt(@, signal[c], cfg.timeout, << c, @.attempts + 1 >>) ]
    /\ fetchCalls' = fetchCalls + 1
    /\ log' = [ log EXCEPT ![c] = Append(@, "fetch") ]
    /\ UNCHANGED << cfg, env, verdict, chain, console, inputs, received, stream, yielded, via, requestOptions, pc, req, signal, pendingRequests, joinedOn,
                    fetcherResult, hookCalls, clientResult, lookupOverlap >>

\* `await fetchPromise` resumes in the call that started the cycle: a
\* rejection goes to the catch block, a response to afterResponse when
\* configured and else is returned.
OwnerResumes(c) ==
    /\ pc[c] = "awaitFetch"
    /\ IsSettled(cycle[c])
    /\ IF cycle[c].result.kind = "rejected"
       THEN Fail(c, cycle[c].result.err)
       ELSE IF cfg.afterResponse
            THEN /\ pc' = [ pc EXCEPT ![c] = "afterResponse" ]
                 /\ hookCalls' = [ hookCalls EXCEPT ![c].afterResponse = @ + 1 ]
                 /\ log' = [ log EXCEPT ![c] = Append(@, "afterResponse") ]
                 /\ UNCHANGED << fetcherResult, console >>
            ELSE /\ pc' = [ pc EXCEPT ![c] = "settled" ]
                 /\ fetcherResult' = [ fetcherResult EXCEPT ![c] = cycle[c].result ]
                 /\ console' = [ console EXCEPT ![c] =
                        ConsoleLog(@, Debug(c),
                                   ResponseLogged(req[c], cycle[c].result.resp)) ]
                 /\ UNCHANGED << hookCalls, log >>
    /\ UNCHANGED << cfg, env, verdict, chain, inputs, received, stream, yielded, via, requestOptions, req, signal, pendingRequests, cycle, joinedOn, fetchCalls,
                    clientResult, lookupOverlap >>

\* The awaited afterResponse hook returns the response it was given, returns
\* another response, or throws.
AfterResponseReturns(c) ==
    /\ pc[c] = "afterResponse"
    /\ LET raw == cycle[c].result.resp
       IN  \/ /\ \E r \in { raw, Resp(raw.id, raw.status, "afterResponse") } :
                    /\ fetcherResult' = [ fetcherResult EXCEPT ![c] = Resolved(r) ]
                    /\ console' = [ console EXCEPT ![c] =
                           ConsoleLog(@, Debug(c), ResponseLogged(req[c], r)) ]
                    /\ inputs' = Remember(c, Input("afterResponse", NoReq, r.via, 0, NoErr))
              /\ pc' = [ pc EXCEPT ![c] = "settled" ]
              /\ UNCHANGED << hookCalls, log >>
           \/ \E e \in env.throws :
                /\ Fail(c, e)
                /\ inputs' = Remember(c, Input("afterResponse", NoReq, "throws", 0, e))
    /\ UNCHANGED << cfg, env, verdict, chain, received, stream, yielded, via, requestOptions, req, signal, pendingRequests, cycle, joinedOn, fetchCalls,
                    clientResult, lookupOverlap >>

\* A Fetcher that awaits the pending promise inside its try block, so that
\* its rejection goes through the catch block of the joined call too.
JoinedResumesAwaiting(c) ==
    /\ pc[c] = "joined"
    /\ IsSettled(cycle[joinedOn[c]])
    /\ IF cycle[joinedOn[c]].result.kind = "rejected"
       THEN Fail(c, cycle[joinedOn[c]].result.err)
       ELSE /\ fetcherResult' = [ fetcherResult EXCEPT ![c] = cycle[joinedOn[c]].result ]
            /\ pc' = [ pc EXCEPT ![c] = "settled" ]
            /\ UNCHANGED << console, log, hookCalls >>
    /\ UNCHANGED << cfg, env, verdict, chain, inputs, received, stream, yielded, via,
                    requestOptions, req, signal, pendingRequests, cycle, joinedOn,
                    fetchCalls, clientResult, lookupOverlap >>

\* A call that returned the pending promise of another call settles as that
\* promise does.
JoinedResumes(c) ==
    /\ pc[c] = "joined"
    /\ IsSettled(cycle[joinedOn[c]])
    /\ fetcherResult' = [ fetcherResult EXCEPT ![c] = cycle[joinedOn[c]].result ]
    /\ pc' = [ pc EXCEPT ![c] = "settled" ]
    /\ UNCHANGED << cfg, env, verdict, chain, console, inputs, received, stream, yielded, via, requestOptions, log, req, signal, pendingRequests, cycle, joinedOn, fetchCalls,
                    hookCalls, clientResult, lookupOverlap >>

\* --------------------------------------------------------- the API client
\* typeof error === "object" for a value that is not null.
IsObject(e) == e.type \in { "object", "error" }

\* String(error) for a value that is no instance of Error.
StringForm(e) ==
    CASE e.type = "object" -> "[object Object]"
      [] e.type = "Promise" -> "[object Promise]"
      [] OTHER -> e.message

\* A normalisation that recognises an abort by the error's name only.
ExtractApiErrorByNameOnly(e) ==
    IF e.type = "ApiError" THEN e
    ELSE IF IsObject(e) /\ e.name = "AbortError"
         THEN ApiError("request_aborted", RequestAbortedStatus, "")
    ELSE ApiError("fetch_failed", FetchFailedStatus,
                  IF e.type = "error" THEN e.message ELSE StringForm(e))

\* extractApiErrorFormError: the normalisation of a thrown value.
ExtractApiErrorFormError(e) ==
    IF e.type = "ApiError" THEN e
    ELSE IF IsObject(e) /\ e.name = "AbortError"
         THEN ApiError("request_aborted", RequestAbortedStatus, "")
    ELSE IF IsObject(e) /\ e.cause = "aborted"
         THEN ApiError("request_aborted", RequestAbortedStatus, "")
    ELSE IF e.type = "string" /\ e.message = "aborted"
         THEN ApiError("request_aborted", RequestAbortedStatus, "")
    ELSE ApiError("fetch_failed", FetchFailedStatus,
                  IF e.type = "error" THEN e.message ELSE StringForm(e))

\* An extraction that knows the generic error only.
ExtractApiErrorGeneric(response, body) ==
    ApiError("unexpected_error", response.status, "")

\* An extraction whose schema throws on a value that does not conform.
ExtractApiErrorThrowingParse(response, body) ==
    IF ~body.parses \/ ~body.conforms
    THEN ApiError("unexpected_error", response.status, "")
    ELSE ApiError(IF body.errorId = "" THEN "unexpected_error" ELSE body.errorId,
                  response.status,
                  IF body.debugMessage = "" THEN body.text ELSE body.debugMessage)

\* extractApiError: the ApiError read from a non-ok response. response.json()
\* rejects for a body that is no JSON; a JSON value that is not an object
\* with a string errorId fails ApiErrorResponse and gives an ApiJsonError; a
\* missing errorId takes the schema's default, a missing debugMessage the
\* stringified body.
ExtractApiError(response, body) ==
    IF ~body.parses
    THEN ApiError("unexpected_error", response.status, JsonError.message)
    ELSE IF ~body.conforms
         THEN ApiError("invalid_json_response", response.status, body.text)
         ELSE ApiError(IF body.errorId = "" THEN "unexpected_error" ELSE body.errorId,
                       response.status,
                       IF body.debugMessage = "" THEN body.text
                       ELSE body.debugMessage)

\* A try block that validates before it looks at response.ok.
ApiFetchTryValidatingFirst(settled, json, schema, body) ==
    IF settled.kind = "rejected" THEN Thrown(settled.err)
    ELSE IF schema = "fail"
         THEN ErrorValue(ApiError("schema_validation_failed", SchemaFailedStatus,
                                  "Response validation failed: "
                                      \o ValidatorMessage))
    ELSE IF IsOk(settled.resp.status)
         THEN IF json = "rejects" THEN Thrown(JsonError)
              ELSE Value(IF schema = "none" THEN "data" ELSE "parsed", settled.resp)
         ELSE ErrorValue(ExtractApiError(settled.resp, body))

\* The try block of apiFetch for a Fetcher call that settled as given; json is
\* how response.json() behaves, schema how options.schema judges the data.
ApiFetchTry(settled, json, schema, body) ==
    IF settled.kind = "rejected" THEN Thrown(settled.err)
    ELSE IF IsOk(settled.resp.status)
         THEN IF json = "rejects" THEN Thrown(JsonError)
              ELSE IF schema = "none" THEN Value("data", settled.resp)
              ELSE IF schema = "fail"
                   THEN ErrorValue(ApiError("schema_validation_failed",
                                            SchemaFailedStatus,
                                            "Response validation failed: "
                                                \o ValidatorMessage))
              ELSE Value("parsed", settled.resp)
         ELSE ErrorValue(ExtractApiError(settled.resp, body))

\* A try block that refuses a response without a body.
ApiStreamFetchTryNeedingBody(settled, body) ==
    IF settled.kind = "rejected" THEN Thrown(settled.err)
    ELSE IF IsOk(settled.resp.status)
         THEN IF body.present THEN Value("body", settled.resp)
              ELSE ErrorValue(ApiError("unexpected_error", 500,
                                       "Response body is null"))
         ELSE ErrorValue(ExtractApiError(settled.resp, body))

\* The try block of apiStreamFetch.
ApiStreamFetchTry(settled, body) ==
    IF settled.kind = "rejected" THEN Thrown(settled.err)
    ELSE IF IsOk(settled.resp.status)
         THEN Value(IF body.present THEN "body" ELSE "null", settled.resp)
         ELSE ErrorValue(ExtractApiError(settled.resp, body))

\* A catch block that throws the error again.
ApiFetchCatchRethrows(e) == Thrown(e)

\* The catch block of apiFetch and of apiStreamFetch.
ApiFetchCatch(e) == ErrorValue(ExtractApiErrorFormError(e))

ApiFetch(settled, json, schema, body) ==
    LET t == ApiFetchTry(settled, json, schema, body)
    IN  IF t.kind = "rejected" THEN ApiFetchCatch(t.error) ELSE t

ApiStreamFetch(settled, body) ==
    LET t == ApiStreamFetchTry(settled, body)
    IN  IF t.kind = "rejected" THEN ApiFetchCatch(t.error) ELSE t

\* The client operation that made the Fetcher call reads the response and
\* settles.
ClientSettles(c) ==
    /\ pc[c] = "settled"
    /\ \E json \in env.jsons, schema \in env.schemas, body \in env.bodies :
         \/ /\ clientResult' = [ clientResult EXCEPT ![c] =
                                   ApiFetch(fetcherResult[c], json, schema, body) ]
            /\ received' = [ received EXCEPT ![c] =
                               Received("apiFetch", json, schema, body) ]
         \/ /\ clientResult' = [ clientResult EXCEPT ![c] =
                                   ApiStreamFetch(fetcherResult[c], body) ]
            /\ received' = [ received EXCEPT ![c] =
                               Received("apiStreamFetch", "unread", "none", body) ]
    /\ pc' = [ pc EXCEPT ![c] = "done" ]
    /\ UNCHANGED << cfg, env, verdict, chain, console, inputs, stream, yielded, via, requestOptions, log, req, signal, pendingRequests, cycle, joinedOn, fetchCalls,
                    fetcherResult, hookCalls, lookupOverlap >>

\* ---- isApiError
\* A classification that inspects the fields of the value.
IsApiErrorByFields(v) ==
    /\ v.typeof = "object"
    /\ ~v.null
    /\ "errorId" \in DOMAIN v.props

\* isApiError: an object that is not null and whose $type is "ApiError".
IsApiError(v) ==
    /\ v.typeof = "object"
    /\ ~v.null
    /\ "$type" \in DOMAIN v.props
    /\ v.props["$type"] = "ApiError"

\* The value a client call resolved with: the ApiError, the data of the
\* response, or response.body.
ResultValue(result, body) ==
    CASE result.kind = "apiError" -> ApiErrorInstance(result.error)
      [] result.what = "data"     -> JsonValue(body)
      [] result.what = "null"     -> JsNull
      [] OTHER                    -> JsArray

\* isApiError is called with a value that is no result of a client call.
IsApiErrorCalled(c) ==
    /\ pc[c] = "idle"
    /\ c \in env.callers
    /\ verdict[c] = NoVerdict
    /\ \E v \in OtherValues :
         verdict' = [ verdict EXCEPT ![c] =
                        [ of |-> "value", value |-> v, isApiError |-> IsApiError(v) ] ]
    /\ UNCHANGED << cfg, env, chain, console, inputs, pc, req, signal, pendingRequests,
                    cycle, joinedOn, fetchCalls, fetcherResult, hookCalls,
                    clientResult, via, requestOptions, log, received, stream,
                    yielded, lookupOverlap >>

\* The then handler of useApiFetch: isApiError decides whether the value the
\* client call resolved with goes to error or to data.
UseApiFetchThen(c) ==
    /\ pc[c] = "done"
    /\ clientResult[c].kind \in { "value", "apiError" }
    /\ clientResult[c].what # "parsed"
    /\ verdict[c].of # "result"
    /\ LET v == ResultValue(clientResult[c], received[c].body)
       IN  verdict' = [ verdict EXCEPT ![c] =
                          [ of |-> "result", value |-> v,
                            isApiError |-> IsApiError(v) ] ]
    /\ UNCHANGED << cfg, env, chain, console, inputs, pc, req, signal, pendingRequests,
                    cycle, joinedOn, fetchCalls, fetcherResult, hookCalls,
                    clientResult, via, requestOptions, log, received, stream,
                    yielded, lookupOverlap >>

\* ---- the generators
\* UTF-8 decoding of bytes: the text, and the bytes of an incomplete character
\* at the end, which are held back unless flush is set and then decode to the
\* replacement character.
RECURSIVE Utf8(_, _)
Utf8(bytes, flush) ==
    IF bytes = <<>> THEN [ text |-> <<>>, pending |-> <<>> ]
    ELSE IF Head(bytes) = "hi" /\ Len(bytes) = 1
         THEN IF flush THEN [ text |-> << "?" >>, pending |-> <<>> ]
              ELSE [ text |-> <<>>, pending |-> << "hi" >> ]
    ELSE IF Head(bytes) = "hi" /\ bytes[2] = "lo"
         THEN LET rest == Utf8(Tail(Tail(bytes)), flush)
              IN  [ rest EXCEPT !.text = << "e'" >> \o @ ]
    ELSE LET rest == Utf8(Tail(bytes), flush)
         IN  [ rest EXCEPT !.text =
                 << IF Head(bytes) \in { "hi", "lo" } THEN "?" ELSE Head(bytes) >>
                     \o @ ]

\* A decoder that decodes every chunk on its own.
TextDecoderDecodeEach(pending, value) == Utf8(value, TRUE)

\* decoder.decode(value, { stream: true }) of a decoder holding back pending.
TextDecoderDecode(pending, value) == Utf8(pending \o value, FALSE)

\* Whether JSON.parse accepts the text: here, a number.
IsJson(text) == text # <<>> /\ \A i \in 1..Len(text) : text[i] \in { "1", "2" }
\* JSON.parse of a text it accepts.
RECURSIVE JsonParse(_)
JsonParse(text) ==
    IF text = <<>> THEN 0
    ELSE 10 * JsonParse(SubSeq(text, 1, Len(text) - 1))
            + (IF text[Len(text)] = "1" THEN 1 ELSE 2)
\* options.schema.safeParse(json).success of the schema the generator is given.
SchemaAccepts(json) == json = 1

\* The catch block of a generator: it throws what the async normalisation
\* returns, which is a promise.
GeneratorCatch(e) == Thrown(PromiseOf(ExtractApiErrorFormError(e)))

\* apiFetchTextMany up to its first read, for a Fetcher call that settled as
\* given: "reading" when it goes on to read the body, or what it throws.
ApiFetchTextManyOpens(settled, body) ==
    IF settled.kind = "rejected" THEN GeneratorCatch(settled.err)
    ELSE IF IsOk(settled.resp.status)
         THEN IF body.present THEN Value("reading", settled.resp)
              ELSE GeneratorCatch(ApiError("unexpected_error", 500,
                                           "Response body is null"))
         ELSE GeneratorCatch(PromiseOf(ExtractApiError(settled.resp, body)))

\* apiFetchMany around it: whatever apiFetchTextMany throws goes through the
\* catch block of apiFetchMany as well.
ApiFetchManyOpens(settled, body) ==
    LET inner == ApiFetchTextManyOpens(settled, body)
    IN  IF inner.kind = "rejected" THEN GeneratorCatch(inner.error) ELSE inner

\* A generator that yields whatever JSON.parse returns.
ApiFetchManyChunkUnvalidated(text) ==
    IF ~IsJson(text) THEN << "throw", JsonError >>
    ELSE << "yield", DataChunk(JsonParse(text)) >>

\* What apiFetchMany does with one text chunk: yield its validated value, or
\* throw.
ApiFetchManyChunk(text) ==
    IF ~IsJson(text) THEN << "throw", JsonError >>
    ELSE IF ~SchemaAccepts(JsonParse(text))
         THEN << "throw", ApiError("schema_validation_failed", SchemaFailedStatus,
                                   "Chunk validation failed: " \o ValidatorMessage) >>
    ELSE << "yield", DataChunk(JsonParse(text)) >>

\* A generator is called in place of apiFetch: after the Fetcher call settled
\* it starts reading the body stream or throws.
StreamOpens(c) ==
    /\ pc[c] = "settled"
    /\ \E op \in env.generators, body \in env.bodies, chunks \in Streams :
         LET opened == IF op = "apiFetchMany"
                       THEN ApiFetchManyOpens(fetcherResult[c], body)
                       ELSE ApiFetchTextManyOpens(fetcherResult[c], body)
         IN  /\ received' = [ received EXCEPT ![c] =
                                Received(op, "unread",
                                         IF op = "apiFetchMany" THEN "chunks"
                                         ELSE "none", body) ]
             /\ IF opened.kind = "rejected"
                THEN /\ clientResult' = [ clientResult EXCEPT ![c] = opened ]
                     /\ pc' = [ pc EXCEPT ![c] = "done" ]
                     /\ UNCHANGED stream
                ELSE /\ stream' = [ stream EXCEPT ![c] = Stream(chunks, 0, <<>>) ]
                     /\ pc' = [ pc EXCEPT ![c] = "reading" ]
                     /\ UNCHANGED clientResult
    /\ UNCHANGED << cfg, env, verdict, chain, console, inputs, yielded, via, requestOptions, log, req, signal,
                    pendingRequests, cycle, joinedOn, fetchCalls, fetcherResult,
                    hookCalls, lookupOverlap >>

\* reader.read() settles: the stream closed and the generator returns, or it
\* delivered the next chunk, which is decoded and, by apiFetchMany, parsed and
\* validated, and then yielded.
ReaderReads(c) ==
    /\ pc[c] = "reading"
    /\ LET st == stream[c]
       IN  IF st.read = Len(st.chunks)
           THEN /\ clientResult' = [ clientResult EXCEPT ![c] =
                                       Value("returned", fetcherResult[c].resp) ]
                /\ pc' = [ pc EXCEPT ![c] = "done" ]
                /\ UNCHANGED << stream, yielded >>
           ELSE LET decoded == TextDecoderDecode(st.pending, st.chunks[st.read + 1])
                    step == IF received[c].op = "apiFetchMany"
                            THEN ApiFetchManyChunk(decoded.text)
                            ELSE << "yield", TextChunk(decoded.text) >>
                IN  /\ stream' = [ stream EXCEPT ![c] =
                                     Stream(st.chunks, st.read + 1, decoded.pending) ]
                    /\ IF step[1] = "yield"
                       THEN /\ yielded' = [ yielded EXCEPT ![c] = Append(@, step[2]) ]
                            /\ UNCHANGED << pc, clientResult >>
                       ELSE /\ clientResult' = [ clientResult EXCEPT ![c] =
                                                   GeneratorCatch(step[2]) ]
                            /\ pc' = [ pc EXCEPT ![c] = "done" ]
                            /\ UNCHANGED yielded
    /\ UNCHANGED << cfg, env, verdict, chain, console, inputs, received, via, requestOptions, log, req, signal,
                    pendingRequests, cycle, joinedOn, fetchCalls, fetcherResult,
                    hookCalls, lookupOverlap >>

\* ------------------------------------------------------------ specification
\* Concurrent calls of the Fetcher.
Next ==
    \E c \in Calls :
        \/ Call(c)
        \/ BeforeRequestReturns(c)
        \/ BodyHashed(c)
        \/ FetchSettles(c)
        \/ RetryDelayElapses(c)
        \/ OwnerResumes(c)
        \/ AfterResponseReturns(c)
        \/ JoinedResumes(c)

Spec == Init /\ [][Next]_vars

\* Concurrent calls of the Fetchers two build() calls returned.
SpecBuilds == InitBuilds /\ [][Next]_vars

\* One apiFetch / apiStreamFetch call.
NextCall ==
    \E c \in Calls :
        \/ Call(c)
        \/ BeforeRequestReturns(c)
        \/ BodyHashed(c)
        \/ CallerAborts(c)
        \/ TimeoutFires(c)
        \/ FetchSettles(c)
        \/ RetryDelayElapses(c)
        \/ OwnerResumes(c)
        \/ AfterResponseReturns(c)
        \/ ClientSettles(c)

SpecCall == InitCall /\ [][NextCall]_vars

\* One apiFetch / apiStreamFetch call whose hooks throw arbitrary values.
SpecThrow == InitThrow /\ [][NextCall]_vars

\* One call of a Fetcher without hooks, deduplication, timeout and retries.
NextRequest ==
    \E c \in Calls :
        \/ Call(c)
        \/ FetchSettles(c)
        \/ OwnerResumes(c)
        \/ ClientSettles(c)

SpecRequest == InitRequest /\ [][NextRequest]_vars

\* One call of any client operation through such a Fetcher.
NextClient ==
    \E c \in Calls :
        \/ Call(c)
        \/ FetchSettles(c)
        \/ OwnerResumes(c)
        \/ ClientSettles(c)
        \/ StreamOpens(c)
        \/ ReaderReads(c)

SpecClient == InitClient /\ [][NextClient]_vars

\* Concurrent calls of a Fetcher without hooks and retries.
NextKeys ==
    \E c \in Calls :
        \/ Call(c)
        \/ BodyHashed(c)
        \/ FetchSettles(c)
        \/ OwnerResumes(c)
        \/ JoinedResumes(c)

SpecKeys == InitKeys /\ [][NextKeys]_vars

\* One client call through a Fetcher with a timeout.
NextTimeout ==
    \E c \in Calls :
        \/ Call(c)
        \/ TimeoutFires(c)
        \/ FetchSettles(c)
        \/ RetryDelayElapses(c)
        \/ OwnerResumes(c)
        \/ ClientSettles(c)

SpecTimeout == InitTimeout /\ [][NextTimeout]_vars

\* One client call and the isApiError calls of the code around it.
NextResult ==
    \E c \in Calls :
        \/ IsApiErrorCalled(c)
        \/ Call(c)
        \/ FetchSettles(c)
        \/ OwnerResumes(c)
        \/ ClientSettles(c)
        \/ UseApiFetchThen(c)

SpecResult == InitResult /\ [][NextResult]_vars

\* Builder methods, build() and a call of the Fetcher, in any order.
NextBuilder ==
    \/ \E b \in 1..MaxBuilders : BuilderMethod(b)
    \/ \E b \in 1..MaxBuilders : Build(b)
    \/ FetcherCalled

SpecBuilder == InitBuilder /\ [][NextBuilder]_vars

\* The call through the Fetcher without debug is made once the call through
\* the Fetcher with debug has settled.
TwinCall ==
    /\ pc[1] = "settled"
    /\ Call(2)

\* The two calls, one after the other.
NextDebug ==
    \/ Call(1)
    \/ TwinCall
    \/ \E c \in Calls :
          \/ BeforeRequestReturns(c)
          \/ BodyHashed(c)
          \/ TimeoutFires(c)
          \/ FetchSettles(c)
          \/ RetryDelayElapses(c)
          \/ OwnerResumes(c)
          \/ AfterResponseReturns(c)

SpecDebug == InitDebug /\ [][NextDebug]_vars

\* The fetch settles an attempt whose signal is aborted, and every attempt when
\* no timeout is configured.
FetchSettlesInTime(c) ==
    /\ cycle[c].aborted \/ ~cfg.timeout
    /\ FetchSettles(c)

\* One call under the scheduling the event loop and the platform give: the
\* continuations that are ready run, the hooks return, the timers fire, and
\* the fetch settles an attempt when it is aborted or no timeout bounds it.
FairCall ==
    /\ SpecCall
    /\ WF_vars(\E c \in Calls : BeforeRequestReturns(c))
    /\ WF_vars(\E c \in Calls : BodyHashed(c))
    /\ WF_vars(\E c \in Calls : TimeoutFires(c))
    /\ WF_vars(\E c \in Calls : FetchSettlesInTime(c))
    /\ WF_vars(\E c \in Calls : RetryDelayElapses(c))
    /\ WF_vars(\E c \in Calls : OwnerResumes(c))
    /\ WF_vars(\E c \in Calls : AfterResponseReturns(c))
    /\ WF_vars(\E c \in Calls : ClientSettles(c))

\* ==================================================================== claims
\* A call has reached the registry lookup: it started a cycle or returned a
\* pending promise.
Looked(c) == cycle[c].state # "none" \/ joinedOn[c] # 0
\* The Fetcher call has settled.
FetcherSettled(c) == fetcherResult[c].kind # "none"

Min(a, b) == IF a <= b THEN a ELSE b

\* C1: with deduplication enabled, a call that looks its fingerprint up while
\* a call with the identical fingerprint is still pending calls fetch no time
\* of its own, and the callers settle with the identical response value.
C1_DedupOneFetchSameValue ==
    \A c \in Calls : \A d \in lookupOverlap[c] :
        cfg.dedupeRequests =>
            /\ Looked(c) => cycle[c].attempts = 0
            /\ ( /\ FetcherSettled(c) /\ FetcherSettled(d)
                  /\ "resolved" \in { fetcherResult[c].kind, fetcherResult[d].kind } )
                   => fetcherResult[c] = fetcherResult[d]

\* C2: a registry entry is removed when its cycle (all retries included)
\* settles, resolved or rejected: every entry belongs to a pending cycle, a
\* settled cycle owns none, and a call that finds no pending call with its
\* fingerprint starts a cycle and a fetch of its own.
C2_EntryRemovedOnSettle ==
    /\ \A e \in pendingRequests :
          IsPending(cycle[e.owner]) /\ cycle[e.owner].key = e.key
    /\ \A c \in Calls :
          IsSettled(cycle[c]) => c \notin { e.owner : e \in pendingRequests }
    /\ \A c \in Calls :
          (cfg.dedupeRequests /\ Looked(c) /\ lookupOverlap[c] = {}) =>
              joinedOn[c] = 0 /\ cycle[c].attempts >= 1
    /\ (\A c \in Calls : Looked(c) /\ lookupOverlap[c] = {}) =>
          fetchCalls >= Cardinality(Calls)

\* Two calls with the same fingerprint, the second made after the cycle of the
\* first had rejected, each with a fetch of its own.
C2_Witness ==
    \E c, d \in Calls :
        /\ c # d
        /\ cfg.dedupeRequests
        /\ Fingerprint(req[c]) = Fingerprint(req[d])
        /\ cycle[c].state = "rejected"
        /\ IsSettled(cycle[d])
        /\ lookupOverlap[c] = {} /\ lookupOverlap[d] = {}
        /\ cycle[c].attempts >= 1 /\ cycle[d].attempts >= 1
        /\ pendingRequests = {}

\* The ApiError of a cancelled request.
RequestAborted == ErrorValue(ApiError("request_aborted", RequestAbortedStatus, ""))

\* C3: after an attempt the pipeline retries if and only if attempts remain
\* and the attempt failed (it rejected, or its status is in retryOn); a
\* settled cycle has made exactly min(failures, retries) + 1 attempts.
C3_RetryIffFailureWithinBudget ==
    \A c \in Calls :
        LET cyc == cycle[c]
            again == cyc.attempts <= cfg.retries /\ IsFailure(cyc.last, cfg.retryOn)
        IN  /\ cyc.state = "delay" => again
            /\ IsSettled(cyc) => ~again
            /\ IsSettled(cyc) =>
                  cyc.attempts = Min(cyc.failures, cfg.retries) + 1

\* A cycle with a retryOn list that spent its whole budget on failures and
\* settled with the response of its last attempt.
C3_Witness ==
    \E c \in Calls :
        /\ cfg.retries = MaxRetries
        /\ cfg.retryOn = { 500 }
        /\ IsSettled(cycle[c])
        /\ cycle[c].attempts = MaxRetries + 1
        /\ cycle[c].failures = MaxRetries + 1
        /\ cycle[c].last.kind = "resolved"

C5_NonOkRetriedWithoutList ==
    \A c \in Calls :
        ( /\ cfg.retries > 0 /\ cfg.retryOn = NoList
          /\ IsSettled(cycle[c])
          /\ cycle[c].failures = 0
          /\ cycle[c].last.kind = "resolved"
          /\ ~IsOk(cycle[c].last.resp.status) )
        => /\ cycle[c].attempts = cfg.retries + 1
           /\ cycle[c].result = cycle[c].last

\* C6: a cycle settles with the outcome of its last attempt unchanged: the
\* response of the attempt that was not retried (earlier failures are not
\* surfaced), or, the budget exhausted, the last response or the last error;
\* and so does the Fetcher call, unless afterResponse handles the response.
C6_CycleSettlesWithLastAttempt ==
    \A c \in Calls :
        LET cyc == cycle[c]
        IN  /\ IsSettled(cyc) =>
                  /\ cyc.result = cyc.last
                  /\ cyc.state = cyc.last.kind
                  /\ cyc.attempts <= cfg.retries + 1
                  /\ IsFailure(cyc.last, cfg.retryOn) =>
                        cyc.attempts = cfg.retries + 1
            /\ ( /\ FetcherSettled(c) /\ IsSettled(cyc)
                 /\ (cyc.last.kind = "rejected" \/ ~cfg.afterResponse) )
               => fetcherResult[c] = cyc.last

\* A call that resolved with the ok response of its last attempt after
\* failures, and no trace of them in the result.
C6_Witness ==
    \E c \in Calls :
        /\ cycle[c].failures = MaxRetries
        /\ cycle[c].attempts = MaxRetries + 1
        /\ ~cfg.afterResponse
        /\ fetcherResult[c] = Resolved(Resp(<< c, MaxRetries + 1 >>, 200, "fetch"))

\* C7: with a timeout and no retries, the attempt in flight can be aborted by
\* its timer, an attempt the timer aborted rejects with the abort error, and
\* the client call then returns the ApiError request_aborted / 499.
C7_TimeoutAborts ==
    (cfg.timeout /\ cfg.retries = 0) =>
        \A c \in Calls :
            LET cyc == cycle[c]
            IN  /\ (cyc.state = "inflight" /\ ~cyc.aborted) => TimerAborts(cyc)
                /\ (cyc.abortedBy = "timer" /\ cyc.state # "inflight") =>
                      /\ cyc.state = "rejected"
                      /\ cyc.result = Rejected(AbortError)
                /\ (cyc.abortedBy = "timer" /\ pc[c] = "done") =>
                      clientResult[c] = RequestAborted

\* A call that ended with request_aborted because its timer fired.
C7_Witness ==
    \E c \in Calls :
        /\ cfg.timeout /\ cfg.retries = 0
        /\ cycle[c].abortedBy = "timer"
        /\ pc[c] = "done"
        /\ clientResult[c] = RequestAborted

C9_ClientNeverRejects ==
    \A c \in Calls :
        /\ pc[c] = "done" =>
              \/ clientResult[c].kind = "value"
              \/ /\ clientResult[c].kind = "apiError"
                 /\ clientResult[c].error.type = "ApiError"
        /\ pc[c] # "done" => clientResult[c] = NoClientResult

\* A call whose Fetcher rejected with a hook's error and that resolved with
\* an ApiError all the same.
C9_Witness ==
    \E c \in Calls :
        /\ pc[c] = "done"
        /\ fetcherResult[c] = Rejected(HookError)
        /\ clientResult[c].kind = "apiError"

\* C10: every client call that was made eventually settles, once and for
\* all, with a success value or an ApiError.
C10_CallSettlesOnce ==
    /\ \A c \in Calls : (pc[c] # "idle") ~> (pc[c] = "done")
    /\ [](\A c \in Calls :
            pc[c] = "done" => clientResult[c].kind \in { "value", "apiError" })
    /\ [][ \A c \in Calls :
             pc[c] = "done" =>
                 pc'[c] = "done" /\ clientResult'[c] = clientResult[c] ]_vars

\* A call that went through every retry and settled.
C10_Witness ==
    \E c \in Calls :
        /\ pc[c] = "done"
        /\ cycle[c].attempts = MaxRetries + 1
        /\ clientResult[c].kind = "apiError"

\* The positions of an event in a call's log, and how often it occurs.
Positions(c, event) == { i \in 1..Len(log[c]) : log[c][i] = event }
Occurrences(c, event) == Cardinality(Positions(c, event))

\* C11: beforeRequest is awaited before the first fetch of the call starts,
\* afterResponse runs only once the fetch and its retries have settled with a
\* response, and a successful call with both hooks and a single attempt logs
\* exactly beforeRequest, fetch, afterResponse.
C11_HookOrder ==
    \A c \in Calls :
        /\ pc[c] = "beforeRequest" =>
              log[c] = << "beforeRequest" >> /\ cycle[c].attempts = 0
        /\ \A i \in Positions(c, "afterResponse") :
              /\ cycle[c].state = "resolved"
              /\ Occurrences(c, "fetch") = cycle[c].attempts
              /\ \A j \in Positions(c, "fetch") \cup Positions(c, "beforeRequest") : j < i
        /\ ( /\ cfg.beforeRequest /\ cfg.afterResponse
             /\ fetcherResult[c].kind = "resolved"
             /\ cycle[c].attempts = 1 )
           => log[c] = << "beforeRequest", "fetch", "afterResponse" >>

\* A client call that returned a value after the three steps in that order.
C11_Witness ==
    \E c \in Calls :
        /\ pc[c] = "done"
        /\ clientResult[c].kind = "value"
        /\ log[c] = << "beforeRequest", "fetch", "afterResponse" >>

\* C12: beforeRequest is invoked exactly once per Fetcher call, as the first
\* step and ahead of every fetch, however many attempts the call makes.
C12_BeforeRequestOnce ==
    \A c \in Calls :
        (cfg.beforeRequest /\ pc[c] # "idle") =>
            /\ hookCalls[c].beforeRequest = 1
            /\ Positions(c, "beforeRequest") = { 1 }
            /\ Occurrences(c, "fetch") = cycle[c].attempts

\* A call that made every retry and invoked beforeRequest once.
C12_Witness ==
    \E c \in Calls :
        /\ cfg.beforeRequest
        /\ cycle[c].attempts = MaxRetries + 1
        /\ hookCalls[c].beforeRequest = 1
        /\ log[c][1] = "beforeRequest"
        /\ Occurrences(c, "fetch") = MaxRetries + 1

\* The last entry of a call's log, or "" when the log is empty.
LastLogged(c) == IF log[c] = << >> THEN "" ELSE log[c][Len(log[c])]

\* C13: with an afterResponse hook configured, every Fetcher call that
\* resolves has had the hook applied to the final raw response and resolves
\* with what the hook returned.
C13_AfterResponseForEveryCall ==
    cfg.afterResponse =>
        \A c \in Calls :
            fetcherResult[c].kind = "resolved" =>
                /\ hookCalls[c].afterResponse = 1
                /\ LastLogged(c) = "afterResponse"

\* C14: whenever a Fetcher call fails, the onError hook has been invoked
\* before the call rejects.
C14_OnErrorForEveryFailure ==
    cfg.onError =>
        \A c \in Calls :
            fetcherResult[c].kind = "rejected" =>
                /\ hookCalls[c].onError = 1
                /\ LastLogged(c) = "onError"

\* C15: Fetchers obtained from different build() calls never share pending
\* entries: a call made through one never returns the pending promise of a
\* call made through another, and issues a fetch of its own.
C15_FetchersShareNoEntry ==
    \A c \in Calls :
        Looked(c) =>
            /\ joinedOn[c] # 0 => via[joinedOn[c]] = via[c]
            /\ (\A d \in lookupOverlap[c] : via[d] # via[c]) => cycle[c].attempts >= 1

\* C16: the callers of one pending entry share one outcome: all of them
\* resolve or all of them reject, and those that reject reject with the same
\* error.
C16_SharedOutcome ==
    \A c, d \in Calls :
        (joinedOn[d] = c /\ FetcherSettled(c) /\ FetcherSettled(d)) =>
            /\ fetcherResult[c].kind = fetcherResult[d].kind
            /\ fetcherResult[c].err = fetcherResult[d].err

\* The call has called fetch, with the headers and the body it built.
Sent(c) == cycle[c].attempts >= 1
HeaderKeys == DOMAIN DefaultHeaders \cup UNION { DOMAIN h : h \in BuilderHeaders \cup CallHeaders }

\* C17: for every header key the value sent to fetch is the call-level value
\* if the call supplies one, otherwise the builder-level value (addHeader),
\* otherwise the default. (Content-Type of a FormData body, which is removed
\* on purpose, and an addHeader Authorization next to setAuth are left out.)
C17_HeaderPrecedence ==
    \A c \in Calls : \A k \in HeaderKeys :
        (Sent(c) /\ ~(k = "Content-Type" /\ req[c].body = "form")) =>
            LET sent == requestOptions[c].headers
            IN  IF k \in DOMAIN req[c].headers
                THEN k \in DOMAIN sent /\ sent[k] = req[c].headers[k]
                ELSE IF k \in DOMAIN cfg.headers
                     THEN \/ k = "Authorization" /\ cfg.auth.type # "none"
                          \/ k \in DOMAIN sent /\ sent[k] = cfg.headers[k]
                     ELSE k \in DOMAIN DefaultHeaders =>
                              k \in DOMAIN sent /\ sent[k] = DefaultHeaders[k]

\* C18: with auth configured by setAuth and an explicit Authorization header
\* in the call options, the Authorization value sent to fetch is the caller's.
C18_CallerAuthorizationWins ==
    \A c \in Calls :
        ( /\ Sent(c)
          /\ cfg.auth.type # "none"
          /\ "Authorization" \in DOMAIN req[c].headers )
        => /\ "Authorization" \in DOMAIN requestOptions[c].headers
           /\ requestOptions[c].headers["Authorization"] = req[c].headers["Authorization"]

SignalsAbort(e) ==
    \/ e.name = "AbortError"
    \/ e.cause = "aborted"
    \/ e.type = "string" /\ e.message = "aborted"

\* C20: the client maps every thrown value to exactly one ApiError: an
\* ApiError to itself; a value whose name is AbortError, whose cause is
\* "aborted" or that is the string "aborted" to request_aborted / 499; every
\* other value to fetch_failed / 500 with its message (an Error) or its
\* string form as debugMessage.
C20_ErrorNormalization ==
    \A c \in Calls :
        (pc[c] = "done" /\ fetcherResult[c].kind = "rejected") =>
            LET e   == fetcherResult[c].err
                got == clientResult[c]
            IN  /\ got.kind = "apiError"
                /\ got.error.type = "ApiError"
                /\ IF e.type = "ApiError"
                   THEN got.error = e
                   ELSE IF SignalsAbort(e)
                        THEN /\ got.error.errorId = "request_aborted"
                             /\ got.error.status = 499
                        ELSE /\ got.error.errorId = "fetch_failed"
                             /\ got.error.status = 500
                             /\ got.error.debugMessage =
                                   IF e.type = "error" THEN e.message
                                   ELSE IF e.type = "object" THEN "[object Object]"
                                   ELSE e.message

\* A call whose hook threw a plain object with the cause "aborted" and that
\* returned request_aborted.
C20_Witness ==
    \E c \in Calls :
        /\ pc[c] = "done"
        /\ fetcherResult[c] = Rejected(JsErr("object", "", "aborted", ""))
        /\ clientResult[c].error.errorId = "request_aborted"

\* ---- the client's results
\* Call c was made through the given operations and the Fetcher answered with
\* a response.
Answered(c, ops) ==
    /\ pc[c] = "done"
    /\ received[c].op \in ops
    /\ fetcherResult[c].kind = "resolved"
OneShot == { "apiFetch", "apiStreamFetch" }

\* C21: for a non-ok response whose JSON body has an errorId, apiFetch and
\* apiStreamFetch resolve with an ApiError that carries the body's errorId,
\* the HTTP status of the response and, when the body has one, the body's
\* debugMessage.
C21_ErrorBodyExtracted ==
    \A c \in Calls :
        LET body == received[c].body
            resp == fetcherResult[c].resp
        IN  ( /\ Answered(c, OneShot)
              /\ ~IsOk(resp.status)
              /\ body.parses /\ body.conforms /\ body.errorId # "" ) =>
                /\ clientResult[c].kind = "apiError"
                /\ clientResult[c].error.type = "ApiError"
                /\ clientResult[c].error.errorId = body.errorId
                /\ clientResult[c].error.status = resp.status
                /\ body.debugMessage # "" =>
                      clientResult[c].error.debugMessage = body.debugMessage

\* A 404 with the body {errorId: not_found, debugMessage: x} that apiFetch
\* answered with not_found / 404 / x.
C21_Witness ==
    \E c \in Calls :
        /\ Answered(c, { "apiFetch" })
        /\ fetcherResult[c].resp.status = 404
        /\ received[c].body.errorId = "not_found"
        /\ clientResult[c] = ErrorValue(ApiError("not_found", 404, "x"))

C23_SchemaOnOkOnly ==
    \A c \in Calls :
        LET resp == fetcherResult[c].resp
            given == received[c]
        IN  Answered(c, { "apiFetch" }) =>
              /\ ( IsOk(resp.status) /\ given.json = "ok" ) =>
                    /\ given.schema = "pass" =>
                          clientResult[c] = Value("parsed", resp)
                    /\ given.schema = "none" =>
                          clientResult[c] = Value("data", resp)
                    /\ given.schema = "fail" =>
                          clientResult[c] =
                              ErrorValue(ApiError("schema_validation_failed", 500,
                                  "Response validation failed: " \o ValidatorMessage))
              /\ ~IsOk(resp.status) =>
                    /\ clientResult[c].kind = "apiError"
                    /\ clientResult[c].error.errorId # "schema_validation_failed"
                    /\ clientResult[c].error.status = resp.status

\* A 404 read by an apiFetch whose schema would have rejected the data.
C23_Witness ==
    \E c \in Calls :
        /\ Answered(c, { "apiFetch" })
        /\ fetcherResult[c].resp.status = 404
        /\ received[c].schema = "fail"
        /\ received[c].json = "ok"
        /\ clientResult[c].error.errorId = "not_found"

\* C24: apiStreamFetch resolves with the body of every ok response, null
\* included, and otherwise with the ApiError apiFetch resolves with for the
\* same response or thrown value.
C24_StreamBodyAsIs ==
    \A c \in Calls :
        ( pc[c] = "done" /\ received[c].op = "apiStreamFetch" ) =>
            LET settled == fetcherResult[c]
                body == received[c].body
            IN  IF settled.kind = "resolved" /\ IsOk(settled.resp.status)
                THEN clientResult[c] =
                         Value(IF body.present THEN "body" ELSE "null", settled.resp)
                ELSE /\ clientResult[c].kind = "apiError"
                     /\ \A json \in Jsons, schema \in Schemas :
                           clientResult[c] = ApiFetch(settled, json, schema, body)

\* An ok response without a body, whose null body apiStreamFetch returned.
C24_Witness ==
    \E c \in Calls :
        /\ Answered(c, { "apiStreamFetch" })
        /\ IsOk(fetcherResult[c].resp.status)
        /\ ~received[c].body.present
        /\ clientResult[c] = Value("null", fetcherResult[c].resp)

\* The chunks of a sequence, joined.
RECURSIVE Joined(_)
Joined(chunks) ==
    IF chunks = <<>> THEN <<>> ELSE Head(chunks) \o Joined(Tail(chunks))
\* Call c is a generator that got to read the body stream of its response.
Reads(c, op) == received[c].op = op /\ pc[c] \in { "reading", "done" }
                    /\ stream[c] # NoStream
\* A stream of chunks of one plain character each.
Plain(chunks) ==
    \A i \in 1..Len(chunks) : chunks[i] \in { << "1" >>, << "2" >>, << "x" >> }

\* C25: while apiFetchTextMany reads the body of an ok response it has yielded
\* one text per chunk read, in stream order: the texts joined are the decoding
\* of the bytes read (chunks of one plain character each are yielded as they
\* are); it returns once all chunks are read and never before, so an empty
\* stream yields nothing.
C25_TextChunksInOrder ==
    \A c \in Calls :
        Reads(c, "apiFetchTextMany") =>
            LET st == stream[c]
                read == SubSeq(st.chunks, 1, st.read)
            IN  /\ Len(yielded[c]) = st.read
                /\ \A i \in 1..Len(yielded[c]) : yielded[c][i].kind = "text"
                /\ Joined([ i \in 1..Len(yielded[c]) |-> yielded[c][i].text ])
                      = Utf8(Joined(read), FALSE).text
                /\ Plain(read) =>
                      yielded[c] = [ i \in 1..st.read |-> TextChunk(read[i]) ]
                /\ pc[c] = "done" =>
                      /\ st.read = Len(st.chunks)
                      /\ clientResult[c].kind = "value"

\* A stream of three chunks read to its end, one of them ending inside a
\* character.
C25_Witness ==
    \E c \in Calls :
        /\ Reads(c, "apiFetchTextMany")
        /\ pc[c] = "done"
        /\ stream[c].chunks = << << "1", "hi" >>, << "lo", "2" >>, << "x" >> >>
        /\ yielded[c] = << TextChunk(<< "1" >>), TextChunk(<< "e'", "2" >>),
                           TextChunk(<< "x" >>) >>

\* C26 as stated: apiFetchTextMany yields nothing and throws for a non-ok
\* response and for an absent body, and what it throws is the ApiError: the
\* one extracted from the non-ok response, unexpected_error for an absent
\* body, request_aborted / 499 for an abort.
C26_ThrowsTheApiError ==
    \A c \in Calls :
        LET settled == fetcherResult[c]
            body == received[c].body
            thrown == clientResult[c].error
        IN  ( pc[c] = "done" /\ received[c].op = "apiFetchTextMany" ) =>
              /\ ( settled.kind = "resolved" /\ ~IsOk(settled.resp.status) ) =>
                    /\ yielded[c] = <<>>
                    /\ clientResult[c].kind = "rejected"
                    /\ thrown = ExtractApiError(settled.resp, body)
              /\ ( settled.kind = "resolved" /\ IsOk(settled.resp.status)
                      /\ ~body.present ) =>
                    /\ yielded[c] = <<>>
                    /\ clientResult[c].kind = "rejected"
                    /\ thrown.type = "ApiError"
                    /\ thrown.errorId = "unexpected_error"
              /\ ( settled.kind = "rejected" /\ settled.err = AbortError ) =>
                    /\ yielded[c] = <<>>
                    /\ clientResult[c].kind = "rejected"
                    /\ thrown.type = "ApiError"
                    /\ thrown.errorId = "request_aborted"
                    /\ thrown.status = RequestAbortedStatus

\* The texts the decoder makes of the chunks, one per chunk.
RECURSIVE DecodedTexts(_, _)
DecodedTexts(chunks, pending) ==
    IF chunks = <<>> THEN <<>>
    ELSE LET decoded == TextDecoderDecode(pending, Head(chunks))
         IN  << decoded.text >> \o DecodedTexts(Tail(chunks), decoded.pending)
\* A text apiFetchMany can yield a value for.
Valid(text) == IsJson(text) /\ SchemaAccepts(JsonParse(text))
\* The position of the first text that is not valid, or one past the last.
FirstInvalid(texts) ==
    LET invalid == { i \in 1..Len(texts) : ~Valid(texts[i]) }
    IN  IF invalid = {} THEN Len(texts) + 1
        ELSE CHOOSE i \in invalid : \A j \in invalid : i <= j

\* C27: apiFetchMany has yielded, in stream order, the validated value of
\* every chunk read before the first chunk that is no JSON or fails the
\* schema; having read that chunk it has thrown, it reads no chunk after it
\* and yields nothing more.
C27_StopsAtFirstInvalidChunk ==
    \A c \in Calls :
        Reads(c, "apiFetchMany") =>
            LET st == stream[c]
                texts == DecodedTexts(st.chunks, <<>>)
                bad == FirstInvalid(texts)
                good == Min(st.read, bad - 1)
            IN  /\ st.read <= bad
                /\ yielded[c] =
                      [ i \in 1..good |-> DataChunk(JsonParse(texts[i])) ]
                /\ \A i \in 1..Len(yielded[c]) : SchemaAccepts(yielded[c][i].value)
                /\ ( st.read = bad /\ bad <= Len(texts) ) <=>
                      ( pc[c] = "done" /\ clientResult[c].kind = "rejected" )

\* A stream whose second chunk fails the schema: the first value was yielded,
\* the generator threw, the third chunk was never read.
C27_Witness ==
    \E c \in Calls :
        /\ Reads(c, "apiFetchMany")
        /\ stream[c].chunks = << << "1" >>, << "2" >>, << "1" >> >>
        /\ stream[c].read = 2
        /\ yielded[c] = << DataChunk(1) >>
        /\ clientResult[c].kind = "rejected"

\* ---- the builder
\* C28: a builder method leaves every builder made so far with the options
\* it had and makes one builder more, and a Fetcher, once built, keeps the
\* builder it was built from, so its options stay what they were.
C28_BuilderMethodsPure ==
    [][ /\ \A b \in 1..Len(chain.options) :
             /\ b <= Len(chain'.options)
             /\ chain'.options[b] = chain.options[b]
        /\ chain'.options # chain.options =>
             Len(chain'.options) = Len(chain.options) + 1
        /\ chain.fetcher # 0 =>
             /\ chain'.fetcher = chain.fetcher
             /\ chain'.options[chain'.fetcher] = chain.options[chain.fetcher] ]_vars

\* A Fetcher built from the first builder and called, with two builders made
\* from the first one: its call got the URL the default options give.
C28_Witness ==
    /\ chain.fetcher = 1
    /\ Len(chain.options) = 3
    /\ chain.options[1] = DefaultOptions
    /\ chain.options[3].queryParams.defined
    /\ chain.sent # NoSent
    /\ chain.sent.fullURL = chain.sent.url

\* The pairs of a query.
Pairs(query) == { query[i] : i \in 1..Len(query) }

\* C29 as stated: the URL passed to fetch is the baseURL followed by the path
\* of the call; every configured query parameter is in it with the value of
\* its last assignment, and so is every parameter of the call's own query
\* with its value.
C29_UrlResolution ==
    chain.sent # NoSent =>
        LET options == chain.options[chain.fetcher]
            url == chain.sent.url
            fullURL == chain.sent.fullURL
            entries == options.queryParams.entries
        IN  /\ fullURL.origin = options.baseURL.origin
            /\ fullURL.path = options.baseURL.path \o url.path
            /\ \A i \in 1..Len(entries) :
                  << entries[i][1], entries[i][2].text >> \in Pairs(fullURL.query)
            /\ Pairs(url.query) \subseteq Pairs(fullURL.query)

\* ---- debug mode
IsPrefix(a, b) == Len(a) <= Len(b) /\ SubSeq(b, 1, Len(a)) = a
\* The kinds of input call c is waiting for: a hook's return, or the
\* settlement of the fetch in flight and the timer that may fire before it.
Awaiting(c) ==
    CASE pc[c] = "beforeRequest" -> { "beforeRequest" }
      [] pc[c] = "afterResponse" -> { "afterResponse" }
      [] pc[c] = "awaitFetch" /\ cycle[c].state = "inflight" ->
           { "fetch" } \cup (IF TimerAborts(cycle[c]) THEN { "timer" } ELSE {})
      [] OTHER -> {}
\* Two settlements that differ at most in the call that made the fetch.
SameSettlement(a, b) ==
    /\ a.kind = b.kind
    /\ a.err = b.err
    /\ a.resp.status = b.resp.status
    /\ a.resp.via = b.resp.via
    /\ a.resp.id[2] = b.resp.id[2]

\* C30: a call through the Fetcher built with enableDebug() and the same call
\* through the Fetcher built without it, given the same inputs, go the same
\* way: as long as call 2 has seen what call 1 saw, it has called the same
\* hooks and made the same fetches in the same order, it waits for the input
\* call 1 got next, and it settles where call 1 settled, with the same value
\* or error; only call 1 writes to the console.
C30_DebugChangesNothing ==
    /\ console[2] = <<>>
    /\ ( pc[1] = "settled" /\ pc[2] # "idle" /\ IsPrefix(inputs[2], inputs[1]) ) =>
          /\ IsPrefix(log[2], log[1])
          /\ requestOptions[2] = requestOptions[1]
          /\ cycle[2].attempts <= cycle[1].attempts
          /\ Awaiting(2) # {} =>
                /\ Len(inputs[2]) < Len(inputs[1])
                /\ inputs[1][Len(inputs[2]) + 1].event \in Awaiting(2)
          /\ pc[2] = "settled" =>
                /\ inputs[2] = inputs[1]
                /\ log[2] = log[1]
                /\ hookCalls[2] = hookCalls[1]
                /\ cycle[2].attempts = cycle[1].attempts
                /\ SameSettlement(fetcherResult[2], fetcherResult[1])

\* Both calls settled after the same inputs, a failed attempt, a retry and an
\* afterResponse hook among them, and call 1 logged the request and the
\* response.
C30_Witness ==
    /\ pc[1] = "settled" /\ pc[2] = "settled"
    /\ inputs[1] = inputs[2]
    /\ log[1] = << "beforeRequest", "fetch", "fetch", "afterResponse" >>
    /\ Len(console[1]) = 2
    /\ fetcherResult[2].kind = "resolved"

\* The value carries the discriminant tag of an ApiError.
HasApiErrorTag(v) ==
    "$type" \in DOMAIN v.props /\ v.props["$type"] = "ApiError"

\* C31: isApiError answers true exactly for an object that carries the tag
\* $type = "ApiError": it is false for null, undefined, primitives, arrays,
\* plain Errors and plain objects with errorId / status fields; an ApiError a
\* client call resolved with is classified as an error, and a payload that
\* has an errorId field and no such tag is returned as it is and classified
\* as success.
C31_ClassifiedByTagOnly ==
    \A c \in Calls :
        LET v == verdict[c]
        IN  /\ v.of # "none" =>
                  (v.isApiError <=> (v.value.typeof = "object" /\ ~v.value.null
                                        /\ HasApiErrorTag(v.value)))
            /\ v.of = "value" => ~v.isApiError
            /\ (v.of = "result" /\ clientResult[c].kind = "apiError") =>
                  v.isApiError
            /\ ( /\ v.of = "result"
                 /\ clientResult[c].kind = "value"
                 /\ received[c].op = "apiFetch"
                 /\ received[c].body.errorId # ""
                 /\ received[c].body.tag # "ApiError" )
               => /\ clientResult[c] = Value("data", fetcherResult[c].resp)
                  /\ v.value = JsonValue(received[c].body)
                  /\ "errorId" \in DOMAIN v.value.props
                  /\ ~v.isApiError

\* An ok response whose payload is an object with an errorId field, returned
\* by apiFetch as data and classified as success.
C31_Witness ==
    \E c \in Calls :
        /\ verdict[c].of = "result"
        /\ received[c].op = "apiFetch"
        /\ received[c].body.errorId = "not_found"
        /\ clientResult[c].kind = "value"
        /\ verdict[c].value.props["errorId"] = "not_found"
        /\ ~verdict[c].isApiError

\* Call c returned the pending promise of call d.
JoinedTo(c, d) == joinedOn[c] = d /\ d # 0

\* C32: calls are deduplicated against each other only when they agree in
\* method, resolved URL and body, each call that differs in one of them
\* issuing a fetch of its own; and calls without a body that agree in method
\* and URL are deduplicated when they overlap.
C32_FingerprintSeparates ==
    \A c, d \in Calls :
        /\ JoinedTo(c, d) => Fingerprint(req[c]) = Fingerprint(req[d])
        /\ ( /\ c # d /\ Looked(c) /\ Looked(d)
             /\ Fingerprint(req[c]) # Fingerprint(req[d]) )
           => cycle[c].attempts >= 1 /\ cycle[d].attempts >= 1
        /\ ( /\ d \in lookupOverlap[c]
             /\ req[c].body = NoBody
             /\ Looked(c) )
           => JoinedTo(c, d) /\ cycle[c].attempts = 0

\* The two differently authenticated calls of a pair that overlapped: c made
\* its lookup while the cycle of d was pending, the two agree in method, URL
\* and body and differ in their Authorization header.
Crossed(c, d) ==
    /\ d \in lookupOverlap[c]
    /\ Looked(c)
    /\ requestOptions[c].headers # requestOptions[d].headers

\* C33: with deduplication enabled, a call that overlaps a call with the same
\* method, URL and body and different call headers returns the promise of
\* that call: while the first call is pending the registry entry of the two is
\* the first call's, the one fetch carries the headers of the first caller,
\* the second caller calls fetch no time and receives the response (or the
\* error) of the first caller's fetch.
C33_HeadersNotInFingerprint ==
    \A c, d \in Calls :
        Crossed(c, d) =>
            /\ JoinedTo(c, d)
            /\ cycle[c].attempts = 0
            /\ cycle[d].attempts = 1
            /\ cycle[d].sent.headers = requestOptions[d].headers
            /\ IsPending(cycle[d]) =>
                  \A e \in pendingRequests :
                      e.key = CacheKey(req[c], cfg.dedupeRequests) => e.owner = d
            /\ FetcherSettled(c) =>
                  /\ fetcherResult[c] = cycle[d].result
                  /\ fetcherResult[c].kind = "resolved" =>
                        fetcherResult[c].resp.id = << d, 1 >>

\* Two calls with different Authorization headers and a body, the second of
\* which resolved with the response to the first one's fetch.
C33_Witness ==
    \E c, d \in Calls :
        /\ Crossed(c, d)
        /\ req[c].body = "40189"
        /\ requestOptions[c].headers["Authorization"] = "Bearer B"
        /\ cycle[d].sent.headers["Authorization"] = "Bearer A"
        /\ fetchCalls = 1
        /\ fetcherResult[c] = Resolved(Resp(<< d, 1 >>, 200, "fetch"))

\* C34: at any time at most one pending cycle exists per registry key: a call
\* that misses stores its entry in the stretch of its lookup, so overlapping
\* calls with one fingerprint, whatever the order in which they resume from
\* beforeRequest or from the body hash, start one cycle, call fetch only
\* through it, and share its retries.
C34_OneCyclePerFingerprint ==
    /\ [](\A c, d \in Calls :
            /\ (c # d /\ IsPending(cycle[c]) /\ IsPending(cycle[d])) =>
                  cycle[c].key # cycle[d].key
            /\ IsPending(cycle[c]) =>
                  { e \in pendingRequests : e.key = cycle[c].key }
                      = { [ key |-> cycle[c].key, owner |-> c ] }
            /\ d \in lookupOverlap[c] =>
                  /\ JoinedTo(c, d)
                  /\ cycle[c] = NoCycle
                  /\ fetchCalls >= cycle[d].attempts
                  /\ FetcherSettled(c) => fetcherResult[c] = cycle[d].result)
    /\ [][ \A c \in Calls :
             (~Looked(c) /\ Looked(c)') =>
                 \/ joinedOn'[c] # 0 /\ cycle'[c] = NoCycle
                 \/ /\ joinedOn'[c] = 0
                    /\ RegistryGet(pendingRequests, cycle'[c].key) = {}
                    /\ RegistryGet(pendingRequests', cycle'[c].key) = { c } ]_vars

\* Two calls that both went through beforeRequest, one of which returned the
\* pending promise of the other and settled with the response of its retry.
C34_Witness ==
    \E c, d \in Calls :
        /\ cfg.beforeRequest
        /\ d \in lookupOverlap[c]
        /\ cycle[c] = NoCycle
        /\ cycle[d].attempts = 2
        /\ fetchCalls = 2
        /\ fetcherResult[c] = Resolved(Resp(<< d, 2 >>, 200, "fetch"))

\* What a hook that is configured has been called.
Times(configured, n) == IF configured THEN n ELSE 0

\* C37: with deduplication enabled every call invokes beforeRequest once,
\* before its lookup; a call that returned a pending promise invokes neither
\* afterResponse nor onError and settles with the raw response or error of
\* the shared cycle, while the call that stored the entry invokes
\* afterResponse for the response and onError for the failure.
C37_HooksOfJoinedCalls ==
    \A c \in Calls :
        /\ Looked(c) =>
              hookCalls[c].beforeRequest = Times(cfg.beforeRequest, 1)
        /\ joinedOn[c] # 0 =>
              /\ hookCalls[c].afterResponse = 0
              /\ hookCalls[c].onError = 0
              /\ FetcherSettled(c) =>
                    fetcherResult[c] = cycle[joinedOn[c]].result
        /\ (joinedOn[c] = 0 /\ FetcherSettled(c) /\ IsSettled(cycle[c])) =>
              /\ hookCalls[c].afterResponse =
                    Times(cfg.afterResponse /\ cycle[c].state = "resolved", 1)
              /\ hookCalls[c].onError =
                    Times(cfg.onError /\ fetcherResult[c].kind = "rejected", 1)

\* Two overlapping calls whose shared cycle rejected: beforeRequest ran for
\* both, onError for the one that stored the entry only.
C37_Witness ==
    \E c, d \in Calls :
        /\ cfg.beforeRequest /\ cfg.afterResponse /\ cfg.onError
        /\ JoinedTo(c, d)
        /\ hookCalls[c] = [ beforeRequest |-> 1, afterResponse |-> 0, onError |-> 0 ]
        /\ hookCalls[d] = [ beforeRequest |-> 1, afterResponse |-> 0, onError |-> 1 ]
        /\ fetcherResult[c] = Rejected(NetworkError)
        /\ fetcherResult[d] = Rejected(NetworkError)

\* C35: once the caller's signal is aborted, the call starts no further fetch
\* attempt, and no attempt in flight resolves: a caller abort during an
\* attempt ends the call with the abort error, whatever retries are left.
C35_NoAttemptAfterCallerAbort ==
    [][ \A c \in Calls :
          signal[c] = "aborted" =>
              /\ cycle[c].attempts >= 1 => cycle'[c].attempts = cycle[c].attempts
              /\ cycle[c].state = "inflight" => cycle'[c].state # "resolved" ]_vars

\* C36: a first fetch attempt issued while the caller's signal is aborted is
\* issued with an aborted signal, with and without a timeout.
C36_AbortedSignalReachesFetch ==
    \A c \in Calls :
        ( /\ signal[c] = "aborted"
          /\ cycle[c].state = "inflight"
          /\ cycle[c].attempts = 1 )
        => cycle[c].aborted

\* C38: every fetch attempt under a timeout has a controller and a timer of
\* its own: the timers armed are that of the attempt in flight at most, an
\* attempt that is not aborted still has its timer, the timer is cleared when
\* the attempt settles, an attempt that has settled is not aborted afterwards,
\* a new attempt starts with its own timer and a signal that is not aborted,
\* and a timer aborts only the attempt it was armed for.
C38_TimeoutPerAttempt ==
    /\ [](\A c \in Calls :
            LET cyc == cycle[c]
            IN  /\ cyc.timers \subseteq
                      (IF cyc.state = "inflight" THEN { cyc.fetchId[2] } ELSE {})
                /\ (cfg.timeout /\ cyc.state = "inflight" /\ ~cyc.aborted) =>
                      cyc.timers = { cyc.attempts }
                /\ ~cfg.timeout => cyc.timers = {} /\ cyc.abortedBy # "timer")
    /\ [][ \A c \in Calls :
             LET cyc == cycle[c]
                 nxt == cycle'[c]
             IN  /\ nxt.state # "inflight" =>
                       nxt.aborted = cyc.aborted /\ nxt.abortedBy = cyc.abortedBy
                 /\ (cfg.timeout /\ nxt.attempts # cyc.attempts) =>
                       /\ nxt.attempts = cyc.attempts + 1
                       /\ nxt.timers = { nxt.attempts }
                       /\ ~nxt.aborted
                 /\ (nxt.abortedBy = "timer" /\ cyc.abortedBy # "timer") =>
                       /\ cyc.state = "inflight"
                       /\ nxt.fetchId = cyc.fetchId
                       /\ cyc.fetchId[2] \in cyc.timers ]_vars

\* A second attempt in flight with its own timer armed, after the timer of
\* the first attempt had aborted the first.
C38_Witness ==
    \E c \in Calls :
        /\ cfg.timeout /\ cfg.retries >= 1
        /\ signal[c] = "none"
        /\ cycle[c].state = "inflight"
        /\ cycle[c].attempts = 2
        /\ cycle[c].last = Rejected(AbortError)
        /\ cycle[c].timers = { 2 }
        /\ ~cycle[c].aborted

\* The platform fetch never answered call c: every attempt that settled so
\* far rejected with the abort error.
NeverResponds(c) ==
    \A i \in 1..Len(inputs[c]) :
        inputs[c][i].event = "fetch" => inputs[c][i].err = AbortError

\* C39: with a timeout and n retries, against a fetch that honours the abort
\* and never responds, every attempt settles right after its own timer has
\* fired, the cycle settles after exactly n + 1 attempts and n + 1 timers
\* with the abort error of the last attempt, and the client call returns the
\* ApiError request_aborted.
C39_TimeoutRetried ==
    \A c \in Calls :
        NeverResponds(c) =>
            /\ \A i \in 1..Len(inputs[c]) :
                  inputs[c][i].event = "fetch" =>
                      i > 1 /\ inputs[c][i - 1].event = "timer"
            /\ Occurrences(c, "fetch") <= cfg.retries + 1
            /\ IsSettled(cycle[c]) =>
                  /\ cycle[c].attempts = cfg.retries + 1
                  /\ Cardinality({ i \in 1..Len(inputs[c]) :
                                     inputs[c][i].event = "timer" }) = cfg.retries + 1
                  /\ cycle[c].result = Rejected(AbortError)
            /\ FetcherSettled(c) => fetcherResult[c] = Rejected(AbortError)
            /\ pc[c] = "done" => clientResult[c] = RequestAborted

\* A call with the largest retry budget, every attempt of which timed out,
\* ended with request_aborted.
C39_Witness ==
    \E c \in Calls :
        /\ cfg.retries = MaxRetries
        /\ NeverResponds(c)
        /\ cycle[c].attempts = MaxRetries + 1
        /\ pc[c] = "done"
        /\ clientResult[c] = RequestAborted

\* The Fetcher call c settled before it reached the registry lookup: its
\* beforeRequest hook threw or rejected.
BeforeRequestThrew(c) == FetcherSettled(c) /\ ~Looked(c)

\* C40: when beforeRequest throws or rejects, the call makes no fetch attempt
\* and starts no cycle, no registry entry exists for it, afterResponse is not
\* called, onError is called once when configured, the Fetcher call rejects
\* with the value the hook threw, and the client call returns that value
\* normalized to an ApiError.
C40_BeforeRequestThrows ==
    \A c \in Calls :
        BeforeRequestThrew(c) =>
            /\ cfg.beforeRequest
            /\ cycle[c] = NoCycle
            /\ Occurrences(c, "fetch") = 0
            /\ \A e \in pendingRequests : e.owner # c
            /\ hookCalls[c] = [ beforeRequest |-> 1, afterResponse |-> 0,
                                onError |-> Times(cfg.onError, 1) ]
            /\ log[c] = IF cfg.onError THEN << "beforeRequest", "onError" >>
                        ELSE << "beforeRequest" >>
            /\ fetcherResult[c].kind = "rejected"
            /\ fetcherResult[c].err \in env.throws
            /\ pc[c] = "done" =>
                  clientResult[c] =
                      ErrorValue(ExtractApiErrorFormError(fetcherResult[c].err))

\* A call whose beforeRequest hook threw an Error: onError ran once, no fetch
\* was made and the client call returned fetch_failed.
C40_Witness ==
    \E c \in Calls :
        /\ BeforeRequestThrew(c)
        /\ cfg.onError
        /\ hookCalls[c].onError = 1
        /\ fetchCalls = 0
        /\ pendingRequests = {}
        /\ fetcherResult[c] = Rejected(HookError)
        /\ pc[c] = "done"
        /\ clientResult[c] =
              ErrorValue(ApiError("fetch_failed", FetchFailedStatus, "hook failed"))

====
